---- MODULE Spec2Model ----
(***************************************************************************)
(* Model of the rule-based BRD analysis service (class AIService) of the   *)
(* webwise-requirement repository.                                         *)
(*                                                                         *)
(* JavaScript strings are TLA+ strings; TLC evaluates Len, \o and SubSeq   *)
(* on them, so includes(), toLowerCase(), join(), padStart() and the       *)
(* template literals are computed character by character.                  *)
(*                                                                         *)
(* A JavaScript value of type `any` is a record                            *)
(*    [t |-> tag, s |-> string, n |-> integer, b |-> boolean,              *)
(*     a |-> sequence of strings, o |-> sequence of <<key, value>>]        *)
(* whose tag t is one of "null", "undefined", "str", "num", "bool", "arr", *)
(* "obj"; only the field the tag names is meaningful.                      *)
(***************************************************************************)
EXTENDS Integers, Sequences, FiniteSets, TLC

VARIABLES
    instance,      \* AIService.instance: "unset" or "created"
    pc,            \* position of the analyzeBRD call: idle, extract, synth, done, error
    data,          \* the AIAnalysisRequest of the call in progress
    idx,           \* position of responses.forEach in extractRequirements
    reqId,         \* let reqId of extractRequirements
    requirements,  \* const requirements of extractRequirements
    result,        \* the BRDAnalysis the call resolved to
    upc,           \* position of the single-rule harness: off, start, validated, formatted, done
    unit,          \* (question, answer, questionType) the single rules are applied to
    out,           \* what the single rules returned for unit
    kept,          \* the request and result of an earlier call that its caller holds
    sections,      \* FormBuilder: const [sections, setSections]
    questions,     \* FormBuilder: const [questions, setQuestions]
    created,       \* how many sections, questions and handler calls the builder has made
    saved          \* the rows saveForm sent to the sections, questions and conditions tables

vars == <<instance, pc, data, idx, reqId, requirements, result, upc, unit, out, kept,
          sections, questions, created, saved>>

(***************************************************************************)
(* Bounds of the model.                                                    *)
(***************************************************************************)
MaxResponses == 2
MaxOptions == 4

(***************************************************************************)
(* JavaScript strings.                                                     *)
(***************************************************************************)
LowerMap ==
    [A |-> "a", B |-> "b", C |-> "c", D |-> "d", E |-> "e", F |-> "f",
     G |-> "g", H |-> "h", I |-> "i", J |-> "j", K |-> "k", L |-> "l",
     M |-> "m", N |-> "n", O |-> "o", P |-> "p", Q |-> "q", R |-> "r",
     S |-> "s", T |-> "t", U |-> "u", V |-> "v", W |-> "w", X |-> "x",
     Y |-> "y", Z |-> "z"]

CharAt(s, i) == SubSeq(s, i, i)

\* evaluated by halves, one character at a time
RECURSIVE toLowerCase(_)
toLowerCase(s) ==
    IF Len(s) = 0 THEN ""
    ELSE IF Len(s) = 1 THEN (IF s \in DOMAIN LowerMap THEN LowerMap[s] ELSE s)
    ELSE LET h == Len(s) \div 2
         IN  toLowerCase(SubSeq(s, 1, h)) \o toLowerCase(SubSeq(s, h + 1, Len(s)))

\* matching whole words only: no letter next to the occurrence
includes_wholeWord(s, k) ==
    LET letter(c) == \E i \in 1..26 : SubSeq("abcdefghijklmnopqrstuvwxyz", i, i) = c
    IN  \E i \in 1..(Len(s) - Len(k) + 1) :
            /\ SubSeq(s, i, i + Len(k) - 1) = k
            /\ (i = 1 \/ ~letter(SubSeq(s, i - 1, i - 1)))
            /\ (i + Len(k) > Len(s) \/ ~letter(SubSeq(s, i + Len(k), i + Len(k))))

includes(s, k) ==
    \E i \in 1..(Len(s) - Len(k) + 1) : SubSeq(s, i, i + Len(k) - 1) = k

\* keywords.some(keyword => s.includes(keyword))
someIncluded(keywords, s) ==
    \E j \in 1..Len(keywords) : includes(s, keywords[j])

RECURSIVE join(_, _)
join(items, sep) ==
    IF Len(items) = 0 THEN ""
    ELSE IF Len(items) = 1 THEN items[1]
    ELSE items[1] \o sep \o join(Tail(items), sep)

\* the conditional push of one or two entries
pushIf(cond, entries) == IF cond THEN entries ELSE <<>>

Digits == "0123456789"

RECURSIVE NatToString(_)
NatToString(n) ==
    IF n < 10 THEN CharAt(Digits, n + 1)
    ELSE NatToString(n \div 10) \o CharAt(Digits, (n % 10) + 1)

IntToString(n) == IF n < 0 THEN "-" \o NatToString(0 - n) ELSE NatToString(n)

RECURSIVE padStart(_, _, _)
padStart(s, width, fill) ==
    IF Len(s) >= width THEN s ELSE padStart(fill \o s, width, fill)

\* s.replace(/[?:]+$/, ''): the marks at the end only
RECURSIVE stripQuestionMarks_trailingOnly(_)
stripQuestionMarks_trailingOnly(s) ==
    IF Len(s) = 0 THEN ""
    ELSE IF SubSeq(s, Len(s), Len(s)) \in {"?", ":"}
    THEN stripQuestionMarks_trailingOnly(SubSeq(s, 1, Len(s) - 1))
    ELSE s

\* s.replace(/[?:]/g, '')
RECURSIVE stripQuestionMarks(_)
stripQuestionMarks(s) ==
    IF Len(s) = 0 THEN ""
    ELSE IF Len(s) = 1 THEN (IF s \in {"?", ":"} THEN "" ELSE s)
    ELSE LET h == Len(s) \div 2
         IN  stripQuestionMarks(SubSeq(s, 1, h))
                 \o stripQuestionMarks(SubSeq(s, h + 1, Len(s)))

(***************************************************************************)
(* JavaScript values.                                                      *)
(***************************************************************************)
Val(t, s, n, b, a, o) == [t |-> t, s |-> s, n |-> n, b |-> b, a |-> a, o |-> o]

Null == Val("null", "", 0, FALSE, <<>>, <<>>)
Undefined == Val("undefined", "", 0, FALSE, <<>>, <<>>)
Str(s) == Val("str", s, 0, FALSE, <<>>, <<>>)
Num(n) == Val("num", "", n, FALSE, <<>>, <<>>)
Bool(b) == Val("bool", "", 0, b, <<>>, <<>>)
Arr(a) == Val("arr", "", 0, FALSE, a, <<>>)
Obj(o) == Val("obj", "", 0, FALSE, <<>>, o)

\* Array.isArray(v)
isArray(v) == v.t = "arr"

\* !v
falsy(v) ==
    \/ v.t \in {"null", "undefined"}
    \/ v.t = "str" /\ Len(v.s) = 0
    \/ v.t = "num" /\ v.n = 0
    \/ v.t = "bool" /\ ~v.b

\* String(v), also `${v}`
String(v) ==
    CASE v.t = "null" -> "null"
      [] v.t = "undefined" -> "undefined"
      [] v.t = "str" -> v.s
      [] v.t = "num" -> IntToString(v.n)
      [] v.t = "bool" -> (IF v.b THEN "true" ELSE "false")
      [] v.t = "arr" -> join(v.a, ",")
      [] v.t = "obj" -> "[object Object]"

\* JSON.stringify(v, null, 2) of a keyed structure with string values
RECURSIVE jsonMembers(_)
jsonMembers(o) ==
    IF Len(o) = 0 THEN ""
    ELSE "\n  \"" \o o[1][1] \o "\": \"" \o o[1][2] \o "\""
             \o (IF Len(o) > 1 THEN "," ELSE "\n") \o jsonMembers(Tail(o))

jsonStringify(v) == "{" \o jsonMembers(v.o) \o "}"

\* What a method call on a value that does not have the method completes with.
TypeError == "TypeError: not a function"

\* v.join(sep)
callJoin(v, sep) == IF isArray(v) THEN join(v.a, sep) ELSE TypeError

(***************************************************************************)
(* new Date(v).toLocaleDateString(), host locale en-US, time zone UTC.     *)
(* A string is parsed in the date-only ISO form YYYY-MM-DD; every other    *)
(* string of the model's inputs has no digit and parses to an invalid      *)
(* date.  A number or boolean is a count of milliseconds since the epoch;  *)
(* the model's numbers lie within a month of it.                           *)
(***************************************************************************)
MsPerDay == 86400000

isDigit(c) == \E d \in 1..10 : CharAt(Digits, d) = c

digitValue(c) == (CHOOSE d \in 1..10 : CharAt(Digits, d) = c) - 1

RECURSIVE parseNat(_)
parseNat(s) ==
    IF Len(s) = 0 THEN 0
    ELSE 10 * parseNat(SubSeq(s, 1, Len(s) - 1)) + digitValue(CharAt(s, Len(s)))

isLeapYear(y) == (y % 4 = 0 /\ y % 100 # 0) \/ y % 400 = 0

daysInMonth(y, m) ==
    IF m = 2 THEN (IF isLeapYear(y) THEN 29 ELSE 28)
    ELSE IF m \in {4, 6, 9, 11} THEN 30 ELSE 31

isIsoDate(s) ==
    /\ Len(s) = 10
    /\ CharAt(s, 5) = "-" /\ CharAt(s, 8) = "-"
    /\ \A i \in {1, 2, 3, 4, 6, 7, 9, 10} : isDigit(CharAt(s, i))
    /\ LET y == parseNat(SubSeq(s, 1, 4))
           m == parseNat(SubSeq(s, 6, 7))
           d == parseNat(SubSeq(s, 9, 10))
       IN  m \in 1..12 /\ d \in 1..daysInMonth(y, m)

\* the date is valid: its time value is not NaN
validDate(v) ==
    \/ v.t = "str" /\ isIsoDate(v.s)
    \/ v.t \in {"num", "bool", "null"}

toLocaleDateString(v) ==
    IF ~validDate(v) THEN "Invalid Date"
    ELSE IF v.t = "str"
         THEN IntToString(parseNat(SubSeq(v.s, 6, 7))) \o "/"
                  \o IntToString(parseNat(SubSeq(v.s, 9, 10))) \o "/"
                  \o IntToString(parseNat(SubSeq(v.s, 1, 4)))
    ELSE IF v.t = "num" /\ v.n < 0
         THEN "12/" \o IntToString(32 + (v.n \div MsPerDay)) \o "/1969"
    ELSE IF v.t = "num"
         THEN "1/" \o IntToString(1 + (v.n \div MsPerDay)) \o "/1970"
    ELSE "1/1/1970"

(***************************************************************************)
(* AIService: the per-response rules.                                      *)
(***************************************************************************)
NoAnswerProvided == "No answer provided"

\* without the check of the sentinel string
isValidResponse_noSentinel(answer) ==
    IF falsy(answer) THEN FALSE
    ELSE IF answer.t = "str" /\ answer.s = "" THEN FALSE
    ELSE IF isArray(answer) /\ Len(answer.a) = 0 THEN FALSE
    ELSE TRUE

isValidResponse(answer) ==
    IF falsy(answer) THEN FALSE
    ELSE IF answer.t = "str" /\ answer.s = "" THEN FALSE
    ELSE IF isArray(answer) /\ Len(answer.a) = 0 THEN FALSE
    ELSE IF answer.t = "str" /\ answer.s = NoAnswerProvided THEN FALSE
    ELSE TRUE

\* with the Performance group tested before the Functional group
categorizeRequirement_performanceFirst(question, questionType) ==
    LET questionLower == toLowerCase(question)
        has(k) == includes(questionLower, k)
    IN  IF has("performance") \/ has("speed") \/ has("load")
            \/ has("response time") \/ has("throughput") \/ has("scalability")
        THEN "Performance Requirements"
        ELSE IF has("function") \/ has("feature") \/ has("capability")
            \/ has("what should") \/ has("how should") \/ has("behavior")
        THEN "Functional Requirements"
        ELSE IF has("security") \/ has("authentication") \/ has("authorization")
            \/ has("access") \/ has("permission") \/ has("privacy")
        THEN "Security Requirements"
        ELSE IF has("interface") \/ has("ui") \/ has("ux")
            \/ has("design") \/ has("layout") \/ has("appearance")
        THEN "User Interface Requirements"
        ELSE IF has("integration") \/ has("api") \/ has("external")
            \/ has("third-party") \/ has("connect") \/ has("sync")
        THEN "Integration Requirements"
        ELSE IF has("data") \/ has("database") \/ has("storage")
            \/ has("backup") \/ has("migration") \/ has("import")
        THEN "Data Requirements"
        ELSE IF has("process") \/ has("workflow") \/ has("business")
            \/ has("procedure") \/ has("approval") \/ has("review")
        THEN "Business Process Requirements"
        ELSE IF has("compliance") \/ has("regulation") \/ has("standard")
            \/ has("audit") \/ has("legal") \/ has("policy")
        THEN "Compliance Requirements"
        ELSE "General Requirements"

categorizeRequirement(question, questionType) ==
    LET questionLower == toLowerCase(question)
        has(k) == includes(questionLower, k)
    IN  IF has("function") \/ has("feature") \/ has("capability")
            \/ has("what should") \/ has("how should") \/ has("behavior")
        THEN "Functional Requirements"
        ELSE IF has("performance") \/ has("speed") \/ has("load")
            \/ has("response time") \/ has("throughput") \/ has("scalability")
        THEN "Performance Requirements"
        ELSE IF has("security") \/ has("authentication") \/ has("authorization")
            \/ has("access") \/ has("permission") \/ has("privacy")
        THEN "Security Requirements"
        ELSE IF has("interface") \/ has("ui") \/ has("ux")
            \/ has("design") \/ has("layout") \/ has("appearance")
        THEN "User Interface Requirements"
        ELSE IF has("integration") \/ has("api") \/ has("external")
            \/ has("third-party") \/ has("connect") \/ has("sync")
        THEN "Integration Requirements"
        ELSE IF has("data") \/ has("database") \/ has("storage")
            \/ has("backup") \/ has("migration") \/ has("import")
        THEN "Data Requirements"
        ELSE IF has("process") \/ has("workflow") \/ has("business")
            \/ has("procedure") \/ has("approval") \/ has("review")
        THEN "Business Process Requirements"
        ELSE IF has("compliance") \/ has("regulation") \/ has("standard")
            \/ has("audit") \/ has("legal") \/ has("policy")
        THEN "Compliance Requirements"
        ELSE "General Requirements"

highPriorityKeywords ==
    <<"critical", "essential", "must", "required", "mandatory", "urgent",
      "important", "vital", "crucial", "necessary", "core", "primary">>

lowPriorityKeywords ==
    <<"nice to have", "optional", "future", "enhancement", "wish",
      "would like", "could", "maybe", "eventually", "later">>

\* with the length heuristic taking strings of 100 characters as well
determinePriority_from100(question, answer) ==
    LET questionLower == toLowerCase(question)
        answerStr == toLowerCase(String(answer))
    IN  IF someIncluded(highPriorityKeywords, questionLower) THEN "High"
        ELSE IF someIncluded(lowPriorityKeywords, questionLower) THEN "Low"
        ELSE IF someIncluded(highPriorityKeywords, answerStr) THEN "High"
        ELSE IF someIncluded(lowPriorityKeywords, answerStr) THEN "Low"
        ELSE IF answer.t = "str" /\ Len(answer.s) >= 100 THEN "High"
        ELSE IF isArray(answer) /\ Len(answer.a) > 3 THEN "High"
        ELSE "Medium"

\* with the urgency keywords of the answer tested before the deferral
\* keywords of the question
determinePriority_answerHighFirst(question, answer) ==
    LET questionLower == toLowerCase(question)
        answerStr == toLowerCase(String(answer))
    IN  IF someIncluded(highPriorityKeywords, questionLower) THEN "High"
        ELSE IF someIncluded(highPriorityKeywords, answerStr) THEN "High"
        ELSE IF someIncluded(lowPriorityKeywords, questionLower) THEN "Low"
        ELSE IF someIncluded(lowPriorityKeywords, answerStr) THEN "Low"
        ELSE IF answer.t = "str" /\ Len(answer.s) > 100 THEN "High"
        ELSE IF isArray(answer) /\ Len(answer.a) > 3 THEN "High"
        ELSE "Medium"

determinePriority(question, answer) ==
    LET questionLower == toLowerCase(question)
        answerStr == toLowerCase(String(answer))
    IN  IF someIncluded(highPriorityKeywords, questionLower) THEN "High"
        ELSE IF someIncluded(lowPriorityKeywords, questionLower) THEN "Low"
        ELSE IF someIncluded(highPriorityKeywords, answerStr) THEN "High"
        ELSE IF someIncluded(lowPriorityKeywords, answerStr) THEN "Low"
        ELSE IF answer.t = "str" /\ Len(answer.s) > 100 THEN "High"
        ELSE IF isArray(answer) /\ Len(answer.a) > 3 THEN "High"
        ELSE "Medium"

\* with the date branch ahead of the sequence branch
formatAnswer_dateFirst(answer, type) ==
    IF answer.t \in {"null", "undefined"} THEN NoAnswerProvided
    ELSE IF type = "date" THEN toLocaleDateString(answer)
    ELSE IF isArray(answer) THEN callJoin(answer, ", ")
    ELSE IF answer.t = "obj" THEN jsonStringify(answer)
    ELSE String(answer)

formatAnswer(answer, type) ==
    IF answer.t \in {"null", "undefined"} THEN NoAnswerProvided
    ELSE IF isArray(answer) THEN callJoin(answer, ", ")
    ELSE IF type = "date" THEN toLocaleDateString(answer)
    ELSE IF answer.t = "obj" THEN jsonStringify(answer)
    ELSE String(answer)

(***************************************************************************)
(* BRDGenerator and PDFGenerator: their own copies of formatAnswer, with   *)
(* date-fns format(new Date(v), "PPP"), which throws on an invalid date.   *)
(***************************************************************************)
MonthNames ==
    <<"January", "February", "March", "April", "May", "June", "July", "August",
      "September", "October", "November", "December">>

\* the day of the month with its English ordinal suffix
ordinalDay(d) ==
    IntToString(d) \o (IF d \in {11, 12, 13} THEN "th"
                       ELSE IF d % 10 = 1 THEN "st"
                       ELSE IF d % 10 = 2 THEN "nd"
                       ELSE IF d % 10 = 3 THEN "rd"
                       ELSE "th")

\* format(new Date(v), "PPP") of a valid date, time zone UTC
formatPPP(v) ==
    IF v.t = "str"
    THEN MonthNames[parseNat(SubSeq(v.s, 6, 7))] \o " "
             \o ordinalDay(parseNat(SubSeq(v.s, 9, 10))) \o ", "
             \o IntToString(parseNat(SubSeq(v.s, 1, 4)))
    ELSE IF v.t = "num" /\ v.n < 0
    THEN "December " \o ordinalDay(32 + (v.n \div MsPerDay)) \o ", 1969"
    ELSE IF v.t = "num"
    THEN "January " \o ordinalDay(1 + (v.n \div MsPerDay)) \o ", 1970"
    ELSE "January 1st, 1970"

\* with the elements joined by "," alone
brdFormatAnswer_commaJoin(answer, type) ==
    IF answer.t \in {"null", "undefined"} THEN NoAnswerProvided
    ELSE IF isArray(answer) THEN callJoin(answer, ",")
    ELSE IF type = "date"
    THEN (IF validDate(answer) THEN formatPPP(answer) ELSE String(answer))
    ELSE IF answer.t = "obj" THEN jsonStringify(answer)
    ELSE String(answer)

\* BRDGenerator.formatAnswer
brdFormatAnswer(answer, type) ==
    IF answer.t \in {"null", "undefined"} THEN NoAnswerProvided
    ELSE IF isArray(answer) THEN callJoin(answer, ", ")
    ELSE IF type = "date"
    THEN (IF validDate(answer) THEN formatPPP(answer) ELSE String(answer))
    ELSE IF answer.t = "obj" THEN jsonStringify(answer)
    ELSE String(answer)

\* PDFGenerator.formatAnswer
pdfFormatAnswer(answer, type) ==
    IF answer.t \in {"null", "undefined"} THEN NoAnswerProvided
    ELSE IF isArray(answer) THEN callJoin(answer, ", ")
    ELSE IF type = "date"
    THEN (IF validDate(answer) THEN formatPPP(answer) ELSE String(answer))
    ELSE IF answer.t = "obj" THEN jsonStringify(answer)
    ELSE String(answer)

\* with the capabilities frame for every checkbox answer
formatRequirementDescription_anyCheckbox(question, answer, questionType) ==
    LET formattedAnswer == formatAnswer(answer, questionType)
        q == stripQuestionMarks(toLowerCase(question))
    IN  IF formattedAnswer = TypeError THEN TypeError
        ELSE IF questionType = "checkbox"
        THEN "The system shall support " \o q
                 \o " with the following capabilities: " \o formattedAnswer
        ELSE IF questionType = "radio" \/ questionType = "select"
        THEN "For " \o q \o ", the system shall implement: " \o formattedAnswer
        ELSE IF questionType = "number"
        THEN "The system shall meet the requirement for " \o q
                 \o " with a value of " \o formattedAnswer
        ELSE IF questionType = "date"
        THEN "The system shall handle " \o q
                 \o " with the specified date: " \o formattedAnswer
        ELSE "Regarding " \o q \o ": " \o formattedAnswer

formatRequirementDescription(question, answer, questionType) ==
    LET formattedAnswer == formatAnswer(answer, questionType)
        q == stripQuestionMarks(toLowerCase(question))
    IN  IF formattedAnswer = TypeError THEN TypeError
        ELSE IF questionType = "checkbox" /\ isArray(answer)
        THEN "The system shall support " \o q
                 \o " with the following capabilities: " \o formattedAnswer
        ELSE IF questionType = "radio" \/ questionType = "select"
        THEN "For " \o q \o ", the system shall implement: " \o formattedAnswer
        ELSE IF questionType = "number"
        THEN "The system shall meet the requirement for " \o q
                 \o " with a value of " \o formattedAnswer
        ELSE IF questionType = "date"
        THEN "The system shall handle " \o q
                 \o " with the specified date: " \o formattedAnswer
        ELSE "Regarding " \o q \o ": " \o formattedAnswer

\* answer.forEach(item => criteria.push(`System successfully supports: ${item}`))
supportsEach(answer) ==
    IF isArray(answer)
    THEN [k \in 1..Len(answer.a) |-> "System successfully supports: " \o answer.a[k]]
    ELSE <<TypeError>>

baseCriteria ==
    <<"Requirement is clearly defined and testable",
      "Implementation meets specified functionality",
      "User acceptance testing passes successfully">>

\* with the checkbox branch taken whatever the answer is
typeCriteria_noArrayGuard(answer, questionType) ==
    IF questionType = "checkbox"
    THEN supportsEach(answer) \o <<"All selected options are fully functional">>
    ELSE IF questionType = "number"
    THEN <<"Numeric value validation is implemented (" \o String(answer) \o ")",
           "Input constraints are properly enforced">>
    ELSE IF questionType = "email"
    THEN <<"Email format validation is implemented",
           "Invalid email addresses are rejected">>
    ELSE IF questionType = "date"
    THEN <<"Date picker functionality is available",
           "Date format validation is implemented",
           "Invalid dates are handled appropriately">>
    ELSE <<>>

\* the type-specific criteria
typeCriteria(answer, questionType) ==
    IF questionType = "checkbox" /\ isArray(answer)
    THEN supportsEach(answer) \o <<"All selected options are fully functional">>
    ELSE IF questionType = "number"
    THEN <<"Numeric value validation is implemented (" \o String(answer) \o ")",
           "Input constraints are properly enforced">>
    ELSE IF questionType = "email"
    THEN <<"Email format validation is implemented",
           "Invalid email addresses are rejected">>
    ELSE IF questionType = "date"
    THEN <<"Date picker functionality is available",
           "Date format validation is implemented",
           "Invalid dates are handled appropriately">>
    ELSE <<>>

\* the context-specific criteria
keywordCriteria(questionLower) ==
    pushIf(includes(questionLower, "security"),
           <<"Security requirements are met and verified",
             "Access controls are properly implemented">>)
    \o pushIf(includes(questionLower, "performance"),
           <<"Performance benchmarks are met",
             "Load testing validates performance requirements">>)
    \o pushIf(includes(questionLower, "integration"),
           <<"Integration points are tested and functional",
             "Data flow between systems is verified">>)

\* with the context-specific criteria pushed before the type-specific ones
generateAcceptanceCriteria_keywordsFirst(question, answer, questionType) ==
    LET typed == typeCriteria(answer, questionType)
    IN  IF typed # <<>> /\ typed[1] = TypeError THEN <<TypeError>>
        ELSE baseCriteria \o keywordCriteria(toLowerCase(question)) \o typed

generateAcceptanceCriteria(question, answer, questionType) ==
    LET typed == typeCriteria(answer, questionType)
    IN  IF typed # <<>> /\ typed[1] = TypeError THEN <<TypeError>>
        ELSE baseCriteria \o typed \o keywordCriteria(toLowerCase(question))

\* with the compliance rule tested ahead of the efficiency rule
assessBusinessValue_complianceFirst(question, answer) ==
    LET questionLower == toLowerCase(question)
        answerStr == toLowerCase(String(answer))
        inQ(k) == includes(questionLower, k)
        inA(k) == includes(answerStr, k)
    IN  IF inQ("revenue") \/ inQ("profit") \/ inQ("cost") \/ inA("money")
        THEN "High - Direct financial impact on business operations"
        ELSE IF inQ("customer") \/ inQ("user") \/ inQ("client") \/ inA("satisfaction")
        THEN "High - Improves customer experience and satisfaction"
        ELSE IF inQ("compliance") \/ inQ("regulation") \/ inQ("legal") \/ inA("required")
        THEN "High - Ensures regulatory compliance and risk mitigation"
        ELSE IF inQ("efficiency") \/ inQ("productivity") \/ inQ("automation") \/ inA("faster")
        THEN "Medium - Enhances operational efficiency"
        ELSE IF inQ("reporting") \/ inQ("analytics") \/ inQ("insight") \/ inA("decision")
        THEN "Medium - Supports data-driven decision making"
        ELSE "Medium - Supports business objectives and user needs"

assessBusinessValue(question, answer) ==
    LET questionLower == toLowerCase(question)
        answerStr == toLowerCase(String(answer))
        inQ(k) == includes(questionLower, k)
        inA(k) == includes(answerStr, k)
    IN  IF inQ("revenue") \/ inQ("profit") \/ inQ("cost") \/ inA("money")
        THEN "High - Direct financial impact on business operations"
        ELSE IF inQ("customer") \/ inQ("user") \/ inQ("client") \/ inA("satisfaction")
        THEN "High - Improves customer experience and satisfaction"
        ELSE IF inQ("efficiency") \/ inQ("productivity") \/ inQ("automation") \/ inA("faster")
        THEN "Medium - Enhances operational efficiency"
        ELSE IF inQ("compliance") \/ inQ("regulation") \/ inQ("legal") \/ inA("required")
        THEN "High - Ensures regulatory compliance and risk mitigation"
        ELSE IF inQ("reporting") \/ inQ("analytics") \/ inQ("insight") \/ inA("decision")
        THEN "Medium - Supports data-driven decision making"
        ELSE "Medium - Supports business objectives and user needs"

\* with the security note pushed ahead of the integration note
generateTechnicalNotes_securityFirst(question, answer, questionType) ==
    LET questionLower == toLowerCase(question)
        note(cond, text) == IF cond THEN <<text>> ELSE <<>>
        notes ==
            note(questionType = "checkbox" \/ questionType = "radio",
                 "Consider using enumeration or configuration-driven approach")
            \o note(questionType = "number",
                 "Implement proper input validation and range checking")
            \o note(questionType = "date",
                 "Consider timezone handling and date format localization")
            \o note(questionType = "email",
                 "Implement RFC-compliant email validation")
            \o note(includes(questionLower, "security"),
                 "Follow security best practices and conduct security review")
            \o note(includes(questionLower, "integration"),
                 "Design with API versioning and error handling in mind")
            \o note(includes(questionLower, "performance"),
                 "Consider caching strategies and performance monitoring")
    IN  join(notes, "; ")

generateTechnicalNotes(question, answer, questionType) ==
    LET questionLower == toLowerCase(question)
        note(cond, text) == IF cond THEN <<text>> ELSE <<>>
        notes ==
            note(questionType = "checkbox" \/ questionType = "radio",
                 "Consider using enumeration or configuration-driven approach")
            \o note(questionType = "number",
                 "Implement proper input validation and range checking")
            \o note(questionType = "date",
                 "Consider timezone handling and date format localization")
            \o note(questionType = "email",
                 "Implement RFC-compliant email validation")
            \o note(includes(questionLower, "integration"),
                 "Design with API versioning and error handling in mind")
            \o note(includes(questionLower, "security"),
                 "Follow security best practices and conduct security review")
            \o note(includes(questionLower, "performance"),
                 "Consider caching strategies and performance monitoring")
    IN  join(notes, "; ")

(***************************************************************************)
(* AIService: the document-level rules.                                    *)
(***************************************************************************)
\* [...new Set(items)]
RECURSIVE uniqueInOrder(_)
uniqueInOrder(items) ==
    IF Len(items) = 0 THEN <<>>
    ELSE LET front == uniqueInOrder(SubSeq(items, 1, Len(items) - 1))
             last == items[Len(items)]
         IN  IF \E k \in 1..Len(front) : front[k] = last
             THEN front ELSE Append(front, last)

\* without the cut at n
slice0_whole(items, n) == items

\* items.slice(0, n)
slice0(items, n) == SubSeq(items, 1, IF Len(items) < n THEN Len(items) ELSE n)

\* over the responses with a valid answer only
responseTexts_validOnly(responses) ==
    LET valid == SelectSeq(responses, LAMBDA r : isValidResponse(r.answer))
    IN  [k \in 1..Len(valid) |-> valid[k].question \o " " \o String(valid[k].answer)]

\* responses.map(r => `${r.question} ${r.answer}`)
responseTexts(responses) ==
    [k \in 1..Len(responses) |->
        responses[k].question \o " " \o String(responses[k].answer)]

objectiveKeywords ==
    << <<"efficiency", "Improve operational efficiency and streamline processes">>,
       <<"customer", "Enhance customer experience and satisfaction">>,
       <<"automation", "Automate manual processes to reduce errors and save time">>,
       <<"integration", "Integrate systems for better data flow and coordination">>,
       <<"reporting", "Provide comprehensive reporting and analytics capabilities">>,
       <<"security", "Strengthen security measures and ensure data protection">>,
       <<"scalability", "Build scalable solutions to support business growth">>,
       <<"compliance", "Ensure regulatory compliance and risk management">> >>

defaultObjectives ==
    <<"Deliver a solution that meets specified requirements",
      "Ensure user satisfaction and system usability",
      "Maintain system reliability and performance">>

RECURSIVE matchedObjectives(_, _)
matchedObjectives(allText, k) ==
    IF k > Len(objectiveKeywords) THEN <<>>
    ELSE pushIf(includes(allText, objectiveKeywords[k][1]), <<objectiveKeywords[k][2]>>)
             \o matchedObjectives(allText, k + 1)

\* without the form title
objectivesText_noTitle(responses, formTitle) ==
    toLowerCase(join(responseTexts(responses), " "))

objectivesText(responses, formTitle) ==
    toLowerCase(join(<<formTitle>> \o responseTexts(responses), " "))

\* with the default objectives pushed whether or not a theme matched
identifyBusinessObjectives_defaultsAppended(responses, formTitle) ==
    LET allText == objectivesText(responses, formTitle)
        objectives == matchedObjectives(allText, 1)
    IN  uniqueInOrder(objectives \o defaultObjectives)

identifyBusinessObjectives(responses, formTitle) ==
    LET allText == objectivesText(responses, formTitle)
        objectives == matchedObjectives(allText, 1)
    IN  uniqueInOrder(IF Len(objectives) = 0 THEN defaultObjectives ELSE objectives)

responsesText(responses) == toLowerCase(join(responseTexts(responses), " "))

\* with the client name scanned along with the responses
identifyStakeholders_withClientName(responses, clientName) ==
    LET allText == objectivesText(responses, clientName)
        has(k) == includes(allText, k)
    IN  <<clientName \o " - Primary Client",
          "Project Manager - Overall project coordination",
          "Business Analyst - Requirements analysis and documentation",
          "Development Team - System implementation",
          "Quality Assurance Team - Testing and validation",
          "End Users - System users and beneficiaries">>
        \o pushIf(has("admin") \/ has("administrator"),
               <<"System Administrator - System maintenance and configuration">>)
        \o pushIf(has("manager") \/ has("management"),
               <<"Management Team - Strategic oversight and approval">>)
        \o pushIf(has("customer") \/ has("client"),
               <<"Customer Support Team - User assistance and feedback">>)
        \o pushIf(has("finance") \/ has("accounting"),
               <<"Finance Team - Budget and financial oversight">>)

identifyStakeholders(responses, clientName) ==
    LET allText == responsesText(responses)
        has(k) == includes(allText, k)
    IN  <<clientName \o " - Primary Client",
          "Project Manager - Overall project coordination",
          "Business Analyst - Requirements analysis and documentation",
          "Development Team - System implementation",
          "Quality Assurance Team - Testing and validation",
          "End Users - System users and beneficiaries">>
        \o pushIf(has("admin") \/ has("administrator"),
               <<"System Administrator - System maintenance and configuration">>)
        \o pushIf(has("manager") \/ has("management"),
               <<"Management Team - Strategic oversight and approval">>)
        \o pushIf(has("customer") \/ has("client"),
               <<"Customer Support Team - User assistance and feedback">>)
        \o pushIf(has("finance") \/ has("accounting"),
               <<"Finance Team - Budget and financial oversight">>)

\* with the data gate tested only when the integration gate did not fire
generateAssumptions_exclusiveGates(responses) ==
    LET allText == responsesText(responses)
        has(k) == includes(allText, k)
    IN  <<"All required resources and personnel will be available as planned",
          "Stakeholders will provide timely feedback and approvals",
          "Technical infrastructure meets minimum system requirements",
          "User training will be provided before system deployment",
          "Data migration (if required) will be completed successfully">>
        \o (IF has("integration")
            THEN <<"Third-party systems will be available for integration testing",
                   "API documentation and access will be provided by external vendors">>
            ELSE pushIf(has("data") \/ has("database"),
                        <<"Data quality meets acceptable standards for migration",
                          "Backup and recovery procedures are in place">>))
        \o pushIf(has("mobile") \/ has("app"),
               <<"Mobile device compatibility requirements are clearly defined">>)

generateAssumptions(responses) ==
    LET allText == responsesText(responses)
        has(k) == includes(allText, k)
    IN  <<"All required resources and personnel will be available as planned",
          "Stakeholders will provide timely feedback and approvals",
          "Technical infrastructure meets minimum system requirements",
          "User training will be provided before system deployment",
          "Data migration (if required) will be completed successfully">>
        \o pushIf(has("integration"),
               <<"Third-party systems will be available for integration testing",
                 "API documentation and access will be provided by external vendors">>)
        \o pushIf(has("data") \/ has("database"),
               <<"Data quality meets acceptable standards for migration",
                 "Backup and recovery procedures are in place">>)
        \o pushIf(has("mobile") \/ has("app"),
               <<"Mobile device compatibility requirements are clearly defined">>)

identifyConstraints(responses) ==
    LET allText == responsesText(responses)
        has(k) == includes(allText, k)
    IN  <<"Project must be completed within approved budget",
          "Solution must comply with existing security policies",
          "System must integrate with current technology stack",
          "Implementation must minimize disruption to ongoing operations">>
        \o pushIf(has("budget") \/ has("cost"),
               <<"Budget limitations may impact scope and timeline">>)
        \o pushIf(has("timeline") \/ has("deadline"),
               <<"Fixed timeline requirements must be met">>)
        \o pushIf(has("legacy") \/ has("existing"),
               <<"Must maintain compatibility with legacy systems">>)
        \o pushIf(has("regulation") \/ has("compliance"),
               <<"Must adhere to regulatory and compliance requirements">>)

assessRisks(responses) ==
    LET allText == responsesText(responses)
        has(k) == includes(allText, k)
    IN  <<"Technical complexity may lead to implementation delays",
          "Scope creep could impact timeline and budget",
          "Integration challenges with existing systems",
          "User adoption may be slower than anticipated",
          "Data quality issues could affect system performance">>
        \o pushIf(has("integration") \/ has("api"),
               <<"Third-party system dependencies may cause integration delays">>)
        \o pushIf(has("performance") \/ has("load"),
               <<"Performance requirements may not be met under high load">>)
        \o pushIf(has("security"),
               <<"Security vulnerabilities could compromise system integrity">>)
        \o pushIf(has("data") \/ has("migration"),
               <<"Data migration complexity may cause project delays">>)

RECURSIVE objectiveCriteria(_)
objectiveCriteria(objectives) ==
    IF Len(objectives) = 0 THEN <<>>
    ELSE pushIf(includes(objectives[1], "efficiency"),
                <<"Process efficiency improvements are measurable and documented">>)
         \o pushIf(includes(objectives[1], "customer"),
                <<"Customer satisfaction scores meet or exceed targets">>)
         \o pushIf(includes(objectives[1], "automation"),
                <<"Manual process reduction is achieved as specified">>)
         \o objectiveCriteria(Tail(objectives))

defineSuccessCriteria(responses, objectives) ==
    <<"All functional requirements are implemented and tested",
      "System performance meets specified benchmarks",
      "User acceptance testing is completed successfully",
      "System is deployed without critical issues",
      "User training is completed and feedback is positive">>
    \o objectiveCriteria(objectives)

\* requirements.map(r => r.category), without the Set
summaryCategories_withRepeats(reqs) == [k \in 1..Len(reqs) |-> reqs[k].category]

\* [...new Set(requirements.map(r => r.category))]
summaryCategories(reqs) == uniqueInOrder([k \in 1..Len(reqs) |-> reqs[k].category])

generateExecutiveSummary(formTitle, clientName, reqs, objectives) ==
    LET totalReqs == Len(reqs)
        highPriorityReqs == Cardinality({k \in 1..Len(reqs) : reqs[k].priority = "High"})
        categories == summaryCategories(reqs)
    IN  "This Business Requirements Document (BRD) presents a comprehensive analysis of the "
        \o formTitle \o " project for " \o clientName
        \o ". Through systematic requirements gathering and analysis, we have identified "
        \o NatToString(totalReqs) \o " distinct requirements across "
        \o NatToString(Len(categories)) \o " major categories. Of these, "
        \o NatToString(highPriorityReqs)
        \o " are classified as high priority and require immediate attention during the implementation phase."
        \o "\n\nThe project aims to "
        \o toLowerCase(join(slice0(objectives, 2), " and "))
        \o ". This document serves as the foundation for system design, development planning, and project execution. All requirements have been analyzed for business value, technical feasibility, and implementation priority to ensure successful project delivery."
        \o "\n\nKey focus areas include "
        \o join(slice0(categories, 3), ", ")
        \o ", which represent the core functional domains of the proposed solution. The requirements outlined in this document will guide the development team in creating a solution that meets business objectives while maintaining technical excellence and user satisfaction."

\* with an empty description taken as a description supplied
generateProjectOverview_emptyDescription(formTitle, formDescription, responses) ==
    LET baseOverview == "The " \o formTitle
            \o " project represents a strategic initiative designed to address specific business needs and operational requirements. "
        responseCount == IF isArray(responses) THEN Len(responses.a) ELSE 0
    IN  IF formDescription.t = "str"
        THEN baseOverview \o String(formDescription)
                 \o " This project will deliver a comprehensive solution that aligns with business objectives and provides measurable value to stakeholders."
        ELSE baseOverview \o "Based on comprehensive requirements gathering involving "
                 \o NatToString(responseCount)
                 \o " detailed response(s), this project will deliver a tailored solution that addresses identified business needs and operational challenges. The solution will be designed to provide immediate value while supporting long-term business growth and scalability."

\* formDescription and responses are optional: a value or Undefined
generateProjectOverview(formTitle, formDescription, responses) ==
    LET baseOverview == "The " \o formTitle
            \o " project represents a strategic initiative designed to address specific business needs and operational requirements. "
        \* responses?.length || 0
        responseCount == IF isArray(responses) THEN Len(responses.a) ELSE 0
    IN  IF ~falsy(formDescription)
        THEN baseOverview \o String(formDescription)
                 \o " This project will deliver a comprehensive solution that aligns with business objectives and provides measurable value to stakeholders."
        ELSE baseOverview \o "Based on comprehensive requirements gathering involving "
                 \o NatToString(responseCount)
                 \o " detailed response(s), this project will deliver a tailored solution that addresses identified business needs and operational challenges. The solution will be designed to provide immediate value while supporting long-term business growth and scalability."

(***************************************************************************)
(* Inputs.                                                                 *)
(***************************************************************************)
QuestionTypes ==
    {"text", "textarea", "email", "number", "date", "select", "radio", "checkbox"}

OptionPool == <<"Reports", "Alerts", "Export", "Search", "Billing", "Audit trail">>

Questions ==
    {"What is critical for security access control?",
     "Which features need better performance?",
     "How should performance, security and integration be balanced?",
     "Describe the integration with external security systems:",
     "Preferred layout and design?",
     "Anything nice to have later?",
     "Which modules do you want?",
     "Target go-live day",
     "Number of users",
     "Compliance and audit policy for customer data",
     "Expected page load speed",
     "Connect to a third-party API?",
     "Approval workflow steps",
     "Which regulation and legal standard applies?",
     "Design of the access permission screen",
     "Go-live: which quarter?",
     "Expected cost per customer",
     "Automation of compliance checks",
     "Other requirements",
     "Who will build it",
     "Download limits",
     "Target score",
     "Rapid rollout"}

\* s repeated n times
RECURSIVE repeat(_, _)
repeat(s, n) ==
    IF n = 0 THEN ""
    ELSE IF n = 1 THEN s
    ELSE repeat(s, n \div 2) \o repeat(s, n - n \div 2)

\* string answers at and just over the length the priority heuristic tests
AtLengthLimit == repeat("data rows ", 10)

OverLengthLimit == AtLengthLimit \o "."

Answers ==
    {Null, Undefined, Str(AtLengthLimit), Str(OverLengthLimit),
     Str(""), Str(NoAnswerProvided), Str("Yes"), Str("no answer provided"),
     Str("This is essential"), Str("Maybe"), Str("Required eventually"),
     Str("tbd"), Str("2024-03-05"),
     Num(0), Num(5), Num(-1), Bool(TRUE), Bool(FALSE),
     Arr(<<"Search", "Alerts">>),
     Obj(<<>>), Obj(<< <<"plan", "basic">> >>)}
    \cup {Arr(SubSeq(OptionPool, 1, n)) : n \in 0..MaxOptions}

Response(q, a, t) == [question |-> q, answer |-> a, questionType |-> t]

UnitInputs == {Response(q, a, t) : q \in Questions, a \in Answers, t \in QuestionTypes}

ResponsePool ==
    {Response("What is critical for security access control?", Str("Yes"), "radio"),
     Response("Which features need better performance?", Null, "text"),
     Response("Which modules do you want?", Arr(<<"Reports", "Alerts">>), "checkbox"),
     Response("Which modules do you want?", Arr(<<>>), "checkbox"),
     Response("Number of users", Num(0), "number"),
     Response("Target go-live day", Str("2024-03-05"), "date"),
     Response("Compliance and audit policy for customer data", Str(""), "textarea"),
     Response("Anything nice to have later?", Str("Automation of reporting"), "textarea"),
     Response("Who is the admin contact?", Str("Dana"), "text"),
     Response("Which manager signs off?", Bool(TRUE), "radio"),
     Response("Who approves the budget?", Str("Finance"), "text")}

\* the forms analysed: title, client name and optional description
Forms ==
    {[formTitle |-> "Vendor Portal", clientName |-> "acme-corp",
      formDescription |-> Undefined],
     [formTitle |-> "Customer Onboarding", clientName |-> "Admin Finance Partners",
      formDescription |-> Str("Replaces the paper intake.")]}

SeqsUpTo(S, n) == UNION {[1..k -> S] : k \in 0..n}

\* one response of every answer shape under every question type
ShapePool ==
    {Response(q, a, t) :
        q \in {"Which modules do you want?", "Expected page load speed"},
        a \in {Null, Str(""), Str("Yes"), Str("tbd"), Num(5), Bool(TRUE),
               Arr(<<"Search", "Alerts">>), Obj(<< <<"plan", "basic">> >>)},
        t \in QuestionTypes}

Request(form, responses) ==
    [formTitle |-> form.formTitle, clientName |-> form.clientName,
     formDescription |-> form.formDescription, responses |-> responses]

\* responses whose text holds the keywords of several topics at once
IntegrationTopic ==
    Response("Integration with the mobile app database", Str("REST API"), "text")

BudgetTopic ==
    Response("Budget and deadline for replacing the legacy system under regulation",
             Str("Fixed"), "text")

RiskTopic ==
    Response("Integration performance, security and data migration", Null, "textarea")

ThemesTopic ==
    Response("How much efficiency should automation bring to customer service?",
             Str("Shorter queues"), "textarea")

TopicRequests ==
    {Request(f, rs) : f \in Forms,
                      rs \in {<<IntegrationTopic>>, <<BudgetTopic>>, <<RiskTopic>>,
                              <<ThemesTopic>>, <<IntegrationTopic, BudgetTopic>>}}
    \cup
    {Request([formTitle |-> "Vendor Portal", clientName |-> "acme-corp",
              formDescription |-> Str("")], <<IntegrationTopic>>),
     \* five requirements of four categories, the first category twice
     Request([formTitle |-> "Vendor Portal", clientName |-> "acme-corp",
              formDescription |-> Undefined],
             <<Response("What is critical for security access control?", Str("Yes"), "radio"),
               IntegrationTopic,
               Response("What is critical for security access control?", Str("Yes"), "radio"),
               BudgetTopic, ThemesTopic>>)}

Requests ==
    {Request(f, rs) : f \in Forms, rs \in SeqsUpTo(ResponsePool, MaxResponses)}
    \cup
    {Request(f, <<r>>) : f \in {g \in Forms : g.formTitle = "Vendor Portal"},
                         r \in ShapePool}
    \cup TopicRequests

(***************************************************************************)
(* State.                                                                  *)
(***************************************************************************)
NoRequest ==
    [formTitle |-> "", clientName |-> "", formDescription |-> Undefined,
     responses |-> <<>>]

NoResult ==
    [executiveSummary |-> "", projectOverview |-> "", businessObjectives |-> <<>>,
     stakeholders |-> <<>>, requirements |-> <<>>, assumptions |-> <<>>,
     constraints |-> <<>>, risks |-> <<>>, successCriteria |-> <<>>]

NoUnit == Response("", Undefined, "text")

NoOut ==
    [valid |-> FALSE, formatted |-> "", brdFormatted |-> "", pdfFormatted |-> "",
     category |-> "", priority |-> "",
     description |-> "", acceptanceCriteria |-> <<>>, businessValue |-> "",
     technicalNotes |-> ""]

NoCall == [data |-> NoRequest, result |-> NoResult]

(***************************************************************************)
(* FormBuilder: the state of the builder page before anything is added.    *)
(* A section or a question has no identity of its own in the builder       *)
(* state; "key" numbers the objects in the order the builder created them  *)
(* so that a property can say "the same section" or "the same question".   *)
(***************************************************************************)
NoneCreated == [sections |-> 0, questions |-> 0, calls |-> 0]

NoSave == [status |-> "none", sections |-> <<>>, questions |-> <<>>, conditions |-> <<>>]

Init ==
    /\ instance = "unset"
    /\ pc = "idle"
    /\ data = NoRequest
    /\ idx = 1
    /\ reqId = 1
    /\ requirements = <<>>
    /\ result = NoResult
    /\ upc = "off"
    /\ unit = NoUnit
    /\ out = NoOut
    /\ kept = NoCall
    /\ sections = <<>>
    /\ questions = <<>>
    /\ created = NoneCreated
    /\ saved = NoSave

(***************************************************************************)
(* AIService.getInstance and analyzeBRD.                                   *)
(***************************************************************************)
GetInstance ==
    /\ instance = "unset"
    /\ instance' = "created"
    /\ UNCHANGED <<pc, data, idx, reqId, requirements, result, upc, unit, out, kept,
                   sections, questions, created, saved>>

\* with reqId a field of the service, initialised once
AnalyzeBRD_keepCounter ==
    /\ instance = "created"
    /\ pc = "idle"
    /\ \E d \in Requests : data' = d
    /\ requirements' = <<>>
    /\ idx' = 1
    /\ result' = NoResult
    /\ pc' = "extract"
    /\ UNCHANGED <<instance, reqId, upc, unit, out, kept,
                   sections, questions, created, saved>>

\* analyzeBRD(d) up to the start of responses.forEach in extractRequirements
AnalyzeBRD ==
    /\ instance = "created"
    /\ pc = "idle"
    /\ \E d \in Requests : data' = d
    /\ requirements' = <<>>
    /\ reqId' = 1
    /\ idx' = 1
    /\ result' = NoResult
    /\ pc' = "extract"
    /\ UNCHANGED <<instance, upc, unit, out, kept,
                   sections, questions, created, saved>>

RequirementItem(id, response) ==
    [id |-> id,
     category |-> categorizeRequirement(response.question, response.questionType),
     priority |-> determinePriority(response.question, response.answer),
     description |-> formatRequirementDescription(response.question, response.answer,
                                                  response.questionType),
     acceptanceCriteria |-> generateAcceptanceCriteria(response.question, response.answer,
                                                       response.questionType),
     businessValue |-> assessBusinessValue(response.question, response.answer),
     technicalNotes |-> generateTechnicalNotes(response.question, response.answer,
                                               response.questionType)]

thrown(item) ==
    \/ item.description = TypeError
    \/ item.acceptanceCriteria = <<TypeError>>

\* requirements.unshift(item)
pushRequirement_front(reqs, item) == <<item>> \o reqs

\* requirements.push(item)
pushRequirement(reqs, item) == Append(reqs, item)

\* reqId++ after the if block, once per response
reqIdAfter_everyResponse(id, valid) == id + 1

\* reqId++ at the end of the if (isValidResponse) block
reqIdAfter(id, valid) == IF valid THEN id + 1 ELSE id

\* one callback of responses.forEach in extractRequirements
ExtractStep ==
    /\ pc = "extract"
    /\ idx <= Len(data.responses)
    /\ LET response == data.responses[idx]
           valid == isValidResponse(response.answer)
           item == RequirementItem("REQ-" \o padStart(NatToString(reqId), 3, "0"), response)
       IN  IF valid /\ thrown(item)
           THEN /\ pc' = "error"
                /\ UNCHANGED <<requirements, reqId, idx>>
           ELSE /\ requirements' = IF valid THEN pushRequirement(requirements, item)
                                   ELSE requirements
                /\ reqId' = reqIdAfter(reqId, valid)
                /\ idx' = idx + 1
                /\ pc' = pc
    /\ UNCHANGED <<instance, data, result, upc, unit, out, kept,
                   sections, questions, created, saved>>

\* the rest of performIntelligentAnalysis, after extractRequirements returned
Synthesize ==
    /\ pc = "extract"
    /\ idx > Len(data.responses)
    /\ LET responses == data.responses
           businessObjectives == identifyBusinessObjectives(responses, data.formTitle)
       IN  result' =
               [executiveSummary |->
                    generateExecutiveSummary(data.formTitle, data.clientName,
                                             requirements, businessObjectives),
                projectOverview |->
                    generateProjectOverview(data.formTitle, data.formDescription, Arr(responses)),
                businessObjectives |-> businessObjectives,
                stakeholders |-> identifyStakeholders(responses, data.clientName),
                requirements |-> requirements,
                assumptions |-> generateAssumptions(responses),
                constraints |-> identifyConstraints(responses),
                risks |-> assessRisks(responses),
                successCriteria |-> defineSuccessCriteria(responses, businessObjectives)]
    /\ pc' = "done"
    /\ UNCHANGED <<instance, data, idx, reqId, requirements, upc, unit, out, kept,
                   sections, questions, created, saved>>

\* the promise settles: the caller takes the result (or the rejection) and the
\* request, the list and the result of the call are gone; reqId is left as it
\* is, nothing but the next call's `let reqId = 1` sets it
Settle ==
    /\ pc \in {"done", "error"}
    /\ pc' = "idle"
    /\ data' = NoRequest
    /\ idx' = 1
    /\ requirements' = <<>>
    /\ result' = NoResult
    /\ UNCHANGED <<instance, reqId, upc, unit, out, kept,
                   sections, questions, created, saved>>

Next == GetInstance \/ AnalyzeBRD \/ ExtractStep \/ Synthesize \/ Settle

Spec == Init /\ [][Next]_vars

(***************************************************************************)
(* Callers that hold on to the result of their call while other calls run. *)
(***************************************************************************)
Vendor == CHOOSE f \in Forms : f.formTitle = "Vendor Portal"

KeptRequests ==
    {Request(Vendor, <<Response("What is critical for security access control?",
                                Str("Yes"), "radio")>>),
     Request(Vendor, <<Response("Which modules do you want?",
                                Arr(<<"Reports", "Alerts">>), "checkbox")>>)}

\* const analysis = await this.aiService.analyzeBRD(analysisData), the caller
\* still using analysis when the next call is made
SettleKept ==
    /\ pc = "done"
    /\ kept = NoCall
    /\ data \in KeptRequests
    /\ kept' = [data |-> data, result |-> result]
    /\ pc' = "idle"
    /\ data' = NoRequest
    /\ idx' = 1
    /\ requirements' = <<>>
    /\ result' = NoResult
    /\ UNCHANGED <<instance, reqId, upc, unit, out, sections, questions, created, saved>>

RepeatNext ==
    GetInstance \/ AnalyzeBRD \/ ExtractStep \/ Synthesize \/ Settle \/ SettleKept

RepeatSpec == Init /\ [][RepeatNext]_vars

(***************************************************************************)
(* The rules applied one at a time to a single (question, answer, type).   *)
(***************************************************************************)
UnitInit ==
    /\ instance = "unset"
    /\ pc = "idle"
    /\ data = NoRequest
    /\ idx = 1
    /\ reqId = 1
    /\ requirements = <<>>
    /\ result = NoResult
    /\ upc = "start"
    /\ unit \in UnitInputs
    /\ out = NoOut
    /\ kept = NoCall
    /\ sections = <<>>
    /\ questions = <<>>
    /\ created = NoneCreated
    /\ saved = NoSave

UnitIsValid ==
    /\ upc = "start"
    /\ out' = [out EXCEPT !.valid = isValidResponse(unit.answer)]
    /\ upc' = "validated"
    /\ UNCHANGED <<instance, pc, data, idx, reqId, requirements, result, unit, kept,
                   sections, questions, created, saved>>

UnitFormatAnswer ==
    /\ upc = "validated"
    /\ out' = [out EXCEPT !.formatted = formatAnswer(unit.answer, unit.questionType)]
    /\ upc' = "formatted"
    /\ UNCHANGED <<instance, pc, data, idx, reqId, requirements, result, unit, kept,
                   sections, questions, created, saved>>

UnitRules ==
    /\ upc = "formatted"
    /\ LET item == RequirementItem("", unit)
       IN  out' = [out EXCEPT !.category = item.category,
                              !.priority = item.priority,
                              !.description = item.description,
                              !.acceptanceCriteria = item.acceptanceCriteria,
                              !.businessValue = item.businessValue,
                              !.technicalNotes = item.technicalNotes]
    /\ upc' = "done"
    /\ UNCHANGED <<instance, pc, data, idx, reqId, requirements, result, unit, kept,
                   sections, questions, created, saved>>

\* the same response printed by the document generators:
\* this.formatAnswer(r.answer, r.question_type) in BRDGenerator and PDFGenerator
UnitFormatCopies ==
    /\ upc = "formatted"
    /\ out' = [out EXCEPT !.brdFormatted = brdFormatAnswer(unit.answer, unit.questionType),
                          !.pdfFormatted = pdfFormatAnswer(unit.answer, unit.questionType)]
    /\ upc' = "printed"
    /\ UNCHANGED <<instance, pc, data, idx, reqId, requirements, result, unit, kept,
                   sections, questions, created, saved>>

UnitNext == UnitIsValid \/ UnitFormatAnswer \/ UnitRules \/ UnitFormatCopies

UnitSpec == UnitInit /\ [][UnitNext]_vars

(***************************************************************************)
(* FormBuilder (src/pages/FormBuilder.tsx), QuestionCard and               *)
(* ConditionalLogic: the lists of sections and questions the builder page  *)
(* edits, and what saveForm sends to the database.                         *)
(*                                                                         *)
(* A section is [key, id, order_index]; id "" is the undefined id of a     *)
(* section that was never saved.  A question is [key, home, order_index,   *)
(* section_id, conditions]; section_id "" is undefined.  key and home (the *)
(* key of the section the question was added to, 0 for none) are not       *)
(* fields of the program's objects.  A condition is                        *)
(* [condition_question_id, chosen]; chosen is the key of the question      *)
(* picked in the select, 0 before one is picked.                           *)
(***************************************************************************)
MaxSections == 2
MaxQuestions == 2
MaxConditions == 1
MaxCalls == 8

NoIndex == -1

Directions == {"up", "down"}

\* `temp_section_${sectionIndex}`
tempSectionId(sectionIndex) == "temp_section_" \o NatToString(sectionIndex)

reindex_kept(list) == list

\* list.forEach((x, i) => x.order_index = i)
reindex(list) == [k \in 1..Len(list) |-> [list[k] EXCEPT !.order_index = k - 1]]

\* list.filter((_, i) => i !== index)
without(list, index) ==
    [k \in 1..(Len(list) - 1) |-> IF k <= index THEN list[k] ELSE list[k + 1]]

\* [updated[index], updated[newIndex]] = [updated[newIndex], updated[index]]
swapped(list, index, newIndex) ==
    [list EXCEPT ![index + 1] = list[newIndex + 1], ![newIndex + 1] = list[index + 1]]

\* const targetIndex = direction === "up" ? index - 1 : index + 1
targetIndex(index, direction) == IF direction = "up" THEN index - 1 ELSE index + 1

\* the early return of moveQuestion and of onMoveSection
moveRefused(list, index, direction) ==
    \/ direction = "up" /\ index = 0
    \/ direction = "down" /\ index = Len(list) - 1

\* removeQuestion: the value it hands to setQuestions
removeQuestion(list, index) == reindex(without(list, index))

\* moveQuestion: the value it hands to setQuestions, the list itself when it
\* returns early
moveQuestion(list, index, direction) ==
    IF moveRefused(list, index, direction) THEN list
    ELSE reindex(swapped(list, index, targetIndex(index, direction)))

\* onRemoveSection: the value it hands to setSections
onRemoveSection(list, index) == reindex(without(list, index))

\* onMoveSection: the value it hands to setSections
onMoveSection(list, index, direction) ==
    IF moveRefused(list, index, direction) THEN list
    ELSE reindex(swapped(list, index, targetIndex(index, direction)))

\* const updated = [...questions]; updated[index] = {...updated[index], [field]: value}
updateQuestion(list, index, field, value) ==
    [list EXCEPT ![index + 1] = [@ EXCEPT ![field] = value]]

\* availableQuestions of QuestionCard: the questions before index, their id
\* the position they have now
availableQuestions(index) ==
    {[id |-> NatToString(i), key |-> questions[i + 1].key] : i \in 0..(index - 1)}

\* the filter of the questions drawn under the section at sectionIndex
sectionShows(sectionIndex, q) ==
    /\ sectionIndex < Len(sections)
    /\ \/ q.section_id = sections[sectionIndex + 1].id
       \/ q.section_id = tempSectionId(sectionIndex)

\* the page is open and the session has calls left
Editing == saved.status = "none" /\ created.calls < MaxCalls

RECURSIVE conditionCount(_)
\* how many conditions the first k questions carry
conditionCount(k) ==
    IF k = 0 THEN 0 ELSE Len(questions[k].conditions) + conditionCount(k - 1)

\* onAddSection
AddSection ==
    /\ Editing
    /\ created.sections < MaxSections
    /\ sections' = Append(sections, [key |-> created.sections + 1, id |-> "",
                                     order_index |-> Len(sections)])
    /\ created' = [created EXCEPT !.sections = @ + 1, !.calls = @ + 1]
    /\ UNCHANGED <<instance, pc, data, idx, reqId, requirements, result, upc, unit, out,
                   kept, questions, saved>>

\* the remove button of a section
RemoveSection(index) ==
    /\ Editing
    /\ sections' = onRemoveSection(sections, index)
    /\ created' = [created EXCEPT !.calls = @ + 1]
    /\ UNCHANGED <<instance, pc, data, idx, reqId, requirements, result, upc, unit, out,
                   kept, questions, saved>>

\* the move buttons of a section
MoveSection(index, direction) ==
    /\ Editing
    /\ sections' = onMoveSection(sections, index, direction)
    /\ created' = [created EXCEPT !.calls = @ + 1]
    /\ UNCHANGED <<instance, pc, data, idx, reqId, requirements, result, upc, unit, out,
                   kept, questions, saved>>

\* addQuestion(sectionIndex?)
AddQuestion(sectionIndex) ==
    /\ Editing
    /\ created.questions < MaxQuestions
    /\ LET inSection == sectionIndex # NoIndex /\ sectionIndex < Len(sections)
           section == sections[sectionIndex + 1]
           sectionId == IF ~inSection THEN ""
                        ELSE IF section.id # "" THEN section.id
                        ELSE tempSectionId(sectionIndex)
           newQuestion == [key |-> created.questions + 1,
                           home |-> IF inSection THEN section.key ELSE 0,
                           order_index |-> Len(questions),
                           section_id |-> sectionId,
                           conditions |-> <<>>]
       IN questions' = Append(questions, newQuestion)
    /\ created' = [created EXCEPT !.questions = @ + 1, !.calls = @ + 1]
    /\ UNCHANGED <<instance, pc, data, idx, reqId, requirements, result, upc, unit, out,
                   kept, sections, saved>>

\* the remove button of a question
RemoveQuestion(index) ==
    /\ Editing
    /\ questions' = removeQuestion(questions, index)
    /\ created' = [created EXCEPT !.calls = @ + 1]
    /\ UNCHANGED <<instance, pc, data, idx, reqId, requirements, result, upc, unit, out,
                   kept, sections, saved>>

\* the move buttons of a question
MoveQuestion(index, direction) ==
    /\ Editing
    /\ questions' = moveQuestion(questions, index, direction)
    /\ created' = [created EXCEPT !.calls = @ + 1]
    /\ UNCHANGED <<instance, pc, data, idx, reqId, requirements, result, upc, unit, out,
                   kept, sections, saved>>

\* onAddCondition of QuestionCard
AddCondition(index) ==
    /\ Editing
    /\ conditionCount(Len(questions)) < MaxConditions
    /\ questions' = updateQuestion(questions, index, "conditions",
                        Append(questions[index + 1].conditions,
                               [condition_question_id |-> "", chosen |-> 0]))
    /\ created' = [created EXCEPT !.calls = @ + 1]
    /\ UNCHANGED <<instance, pc, data, idx, reqId, requirements, result, upc, unit, out,
                   kept, sections, saved>>

\* onUpdateCondition of QuestionCard with field "condition_question_id", the
\* value one of the entries the select of ConditionalLogic offers
UpdateCondition(index, conditionIndex, choice) ==
    /\ Editing
    /\ questions' = updateQuestion(questions, index, "conditions",
                        [questions[index + 1].conditions EXCEPT ![conditionIndex + 1] =
                            [condition_question_id |-> choice.id, chosen |-> choice.key]])
    /\ created' = [created EXCEPT !.calls = @ + 1]
    /\ UNCHANGED <<instance, pc, data, idx, reqId, requirements, result, upc, unit, out,
                   kept, sections, saved>>

\* onRemoveCondition of QuestionCard
RemoveCondition(index, conditionIndex) ==
    /\ Editing
    /\ questions' = updateQuestion(questions, index, "conditions",
                        without(questions[index + 1].conditions, conditionIndex))
    /\ created' = [created EXCEPT !.calls = @ + 1]
    /\ UNCHANGED <<instance, pc, data, idx, reqId, requirements, result, upc, unit, out,
                   kept, sections, saved>>

\* sectionIdMap of saveForm: the keys it holds
sectionIdMapKeys ==
    {sections[k].id : k \in {j \in 1..Len(sections) : sections[j].id # ""}}
        \cup {tempSectionId(k - 1) : k \in 1..Len(sections)}

\* sectionIdMap.get(sectionId): the inserted row, named by the key of the section
\* it was inserted for; a later set() of the same key replaces an earlier one
sectionIdMapGet(sectionId) ==
    LET setters == {k \in 1..Len(sections) :
                        \/ sections[k].id # "" /\ sections[k].id = sectionId
                        \/ tempSectionId(k - 1) = sectionId}
        last == CHOOSE k \in setters : \A j \in setters : j <= k
    IN sections[last].key

\* questionsToInsert of saveForm; section is the row sectionIdMap gave (0 for
\* none) and raw the section_id sent as it is when the map has no entry for it
questionsToInsert ==
    [k \in 1..Len(questions) |->
        LET q == questions[k]
            mapped == q.section_id # "" /\ q.section_id \in sectionIdMapKeys
        IN [key |-> q.key,
            order_index |-> q.order_index,
            section |-> IF mapped THEN sectionIdMapGet(q.section_id) ELSE 0,
            raw |-> IF q.section_id # "" /\ ~mapped THEN q.section_id ELSE ""]]

RECURSIVE conditionsFrom(_)
\* allConditions of saveForm, from question k (1-based) on; question is the
\* key of the inserted question row the condition is attached to
conditionsFrom(k) ==
    IF k > Len(questions) THEN <<>>
    ELSE [c \in 1..Len(questions[k].conditions) |->
             [question |-> questions[k].key,
              condition_question_id |-> questions[k].conditions[c].condition_question_id]]
         \o conditionsFrom(k + 1)

allConditions == conditionsFrom(1)

\* sections.map(s => ({ ..., order_index: s.order_index }))
sectionsToInsert ==
    [k \in 1..Len(sections) |-> [key |-> sections[k].key, order_index |-> sections[k].order_index]]

\* the section_id column of questions and the condition_question_id column of
\* question_conditions are of type uuid: an insert is refused for a value that
\* is not one, and saveForm throws at the first insert that is refused
questionsError == \E k \in 1..Len(questionsToInsert) : questionsToInsert[k].raw # ""

conditionsError == Len(allConditions) > 0

\* saveForm, a new form with title and client name filled in
SaveForm ==
    /\ Editing
    /\ saved' = [status |-> IF questionsError THEN "questionsError"
                             ELSE IF conditionsError THEN "conditionsError"
                             ELSE "saved",
                 sections |-> sectionsToInsert,
                 questions |-> IF questionsError THEN <<>> ELSE questionsToInsert,
                 conditions |-> IF questionsError \/ conditionsError THEN <<>>
                                ELSE allConditions]
    /\ created' = [created EXCEPT !.calls = @ + 1]
    /\ UNCHANGED <<instance, pc, data, idx, reqId, requirements, result, upc, unit, out,
                   kept, sections, questions>>

BuilderNext ==
    \/ AddSection
    \/ \E index \in 0..(Len(sections) - 1) : RemoveSection(index)
    \/ \E index \in 0..(Len(sections) - 1), direction \in Directions :
           MoveSection(index, direction)
    \/ \E sectionIndex \in (0..(Len(sections) - 1)) \cup {NoIndex} : AddQuestion(sectionIndex)
    \/ \E index \in 0..(Len(questions) - 1) : RemoveQuestion(index)
    \/ \E index \in 0..(Len(questions) - 1), direction \in Directions :
           MoveQuestion(index, direction)
    \/ \E index \in 0..(Len(questions) - 1) : AddCondition(index)
    \/ \E index \in 0..(Len(questions) - 1) :
           \E conditionIndex \in 0..(Len(questions[index + 1].conditions) - 1) :
               \E choice \in availableQuestions(index) :
                   UpdateCondition(index, conditionIndex, choice)
    \/ \E index \in 0..(Len(questions) - 1) :
           \E conditionIndex \in 0..(Len(questions[index + 1].conditions) - 1) :
               RemoveCondition(index, conditionIndex)
    \/ SaveForm

BuilderSpec == Init /\ [][BuilderNext]_vars

(***************************************************************************)
(* Properties of extractRequirements.                                      *)
(***************************************************************************)
ExpectedIds == <<"REQ-001", "REQ-002", "REQ-003", "REQ-004", "REQ-005", "REQ-006">>

validIndices(responses) ==
    {k \in 1..Len(responses) : isValidResponse(responses[k].answer)}

RECURSIVE validResponses(_)
validResponses(responses) ==
    IF Len(responses) = 0 THEN <<>>
    ELSE (IF isValidResponse(responses[1].answer) THEN <<responses[1]>> ELSE <<>>)
             \o validResponses(Tail(responses))

\* the list extractRequirements has built after the first n responses
idsDenseOver(reqs, n) ==
    /\ Len(reqs) = Cardinality(validIndices(SubSeq(data.responses, 1, n)))
    /\ \A k \in 1..Len(reqs) : reqs[k].id = ExpectedIds[k]

\* C1: the requirement ids are REQ-001, REQ-002, ..., REQ-n with n the number
\* of valid responses, at every point of the loop and in the returned result;
\* an invalid response consumes no id.
C1_DenseIds ==
    /\ pc = "extract" => idsDenseOver(requirements, idx - 1)
    /\ pc = "done" => idsDenseOver(result.requirements, Len(data.responses))

\* an invalid response followed by a valid one, analysed to the end
C1_Witness ==
    /\ pc = "done"
    /\ \E j, k \in 1..Len(data.responses) :
          /\ j < k
          /\ ~isValidResponse(data.responses[j].answer)
          /\ isValidResponse(data.responses[k].answer)
    /\ result.requirements[1].id = "REQ-001"

\* C2: the k-th requirement returned is the one computed from the k-th valid
\* response, one per valid response and none per invalid one, in input order.
C2_OnePerValidInOrder ==
    pc = "done" =>
        LET expected == validResponses(data.responses)
            reqs == result.requirements
        IN  /\ Len(reqs) = Len(expected)
            /\ \A k \in 1..Len(reqs) : reqs[k] = RequirementItem(reqs[k].id, expected[k])

\* two valid responses with different requirements, analysed to the end
C2_Witness ==
    /\ pc = "done"
    /\ Len(result.requirements) = 2
    /\ result.requirements[1].description # result.requirements[2].description

(***************************************************************************)
(* Properties of the single rules.                                         *)
(***************************************************************************)
\* the answers the validity predicate is said to reject
rejectedAnswer(answer) ==
    \/ answer.t = "null"
    \/ answer.t = "undefined"
    \/ answer.t = "num" /\ answer.n = 0
    \/ answer.t = "bool" /\ answer.b = FALSE
    \/ answer.t = "str" /\ answer.s = ""
    \/ answer.t = "arr" /\ answer.a = <<>>
    \/ answer.t = "str" /\ answer.s = "No answer provided"

\* C3: isValidResponse is false exactly for falsy answers, empty sequences and
\* the sentinel string, and true for every other answer.
C3_ValidExactly ==
    upc \in {"validated", "formatted", "done"} =>
        (out.valid <=> ~rejectedAnswer(unit.answer))

\* the sentinel string has been rejected
C3_Witness ==
    /\ upc = "validated"
    /\ unit.answer = Str("No answer provided")
    /\ ~out.valid

\* C4: for every question type formatAnswer gives the sentinel for null and
\* undefined, the empty string for an empty sequence and the ", "-join in
\* original order for a non-empty sequence.
C4_FormatNullAndSequences ==
    upc \in {"formatted", "done"} =>
        /\ unit.answer.t \in {"null", "undefined"} => out.formatted = "No answer provided"
        /\ unit.answer = Arr(<<>>) => out.formatted = ""
        /\ unit.answer.t = "arr" => out.formatted = join(unit.answer.a, ", ")
        /\ unit.answer = Arr(<<"Search", "Alerts">>) => out.formatted = "Search, Alerts"

\* a sequence of two options formatted under the date type
C4_Witness ==
    /\ upc = "formatted"
    /\ unit.questionType = "date"
    /\ unit.answer = Arr(<<"Search", "Alerts">>)
    /\ out.formatted = "Search, Alerts"

\* C5 (as claimed): a date-typed scalar answer that does not parse as a date
\* is formatted as its plain string form, and no error is raised.
C5_DateFallback ==
    (/\ upc \in {"formatted", "done"}
     /\ unit.questionType = "date"
     /\ unit.answer.t \in {"str", "num", "bool"}
     /\ ~validDate(unit.answer))
        => /\ out.formatted = String(unit.answer)
           /\ out.formatted # TypeError

(***************************************************************************)
(* The keyword tables the rules are stated against.                        *)
(***************************************************************************)
CategoryNames ==
    <<"Functional Requirements", "Performance Requirements", "Security Requirements",
      "User Interface Requirements", "Integration Requirements", "Data Requirements",
      "Business Process Requirements", "Compliance Requirements">>

CategoryKeywords ==
    << <<"function", "feature", "capability", "what should", "how should", "behavior">>,
       <<"performance", "speed", "load", "response time", "throughput", "scalability">>,
       <<"security", "authentication", "authorization", "access", "permission", "privacy">>,
       <<"interface", "ui", "ux", "design", "layout", "appearance">>,
       <<"integration", "api", "external", "third-party", "connect", "sync">>,
       <<"data", "database", "storage", "backup", "migration", "import">>,
       <<"process", "workflow", "business", "procedure", "approval", "review">>,
       <<"compliance", "regulation", "standard", "audit", "legal", "policy">> >>

matchingGroups(question) ==
    {g \in 1..8 : someIncluded(CategoryKeywords[g], toLowerCase(question))}

firstMatchingCategory(question) ==
    LET m == matchingGroups(question)
    IN  IF m = {} THEN "General Requirements"
        ELSE CategoryNames[CHOOSE g \in m : \A h \in m : g <= h]

UrgencyKeywords ==
    <<"critical", "essential", "must", "required", "mandatory", "urgent",
      "important", "vital", "crucial", "necessary", "core", "primary">>

DeferralKeywords ==
    <<"nice to have", "optional", "future", "enhancement", "wish",
      "would like", "could", "maybe", "eventually", "later">>

ValueQuestionKeywords ==
    <<"revenue", "profit", "cost", "customer", "user", "client", "efficiency",
      "productivity", "automation", "compliance", "regulation", "legal",
      "reporting", "analytics", "insight">>

ValueAnswerKeywords == <<"money", "satisfaction", "faster", "required", "decision">>

urgentText(text) == someIncluded(UrgencyKeywords, toLowerCase(text))

deferredText(text) == someIncluded(DeferralKeywords, toLowerCase(text))

largeAnswer(answer) ==
    \/ answer.t = "str" /\ Len(answer.s) > 100
    \/ answer.t = "arr" /\ Len(answer.a) > 3

noPriorityRule(response) ==
    /\ ~urgentText(response.question) /\ ~deferredText(response.question)
    /\ ~urgentText(String(response.answer)) /\ ~deferredText(String(response.answer))
    /\ ~largeAnswer(response.answer)

noValueRule(response) ==
    /\ ~someIncluded(ValueQuestionKeywords, toLowerCase(response.question))
    /\ ~someIncluded(ValueAnswerKeywords, toLowerCase(String(response.answer)))

\* C6: analyzeBRD never reaches the error state and completes with a result
\* holding one requirement per valid response, whatever the shape of the
\* answers and the question types; a requirement no specific rule matches has
\* the generic category, priority and business value.
C6_Total ==
    /\ pc # "error"
    /\ pc = "done" =>
          LET source == validResponses(data.responses)
              reqs == result.requirements
          IN  /\ Len(reqs) = Len(source)
              /\ Len(result.businessObjectives) > 0
              /\ \A k \in 1..Len(reqs) :
                    /\ matchingGroups(source[k].question) = {}
                          => reqs[k].category = "General Requirements"
                    /\ noPriorityRule(source[k]) => reqs[k].priority = "Medium"
                    /\ noValueRule(source[k]) => reqs[k].businessValue
                          = "Medium - Supports business objectives and user needs"

\* a checkbox question answered with a plain string, matched by no rule,
\* analysed to the end
C6_Witness ==
    /\ pc = "done"
    /\ Len(data.responses) = 1
    /\ data.responses[1] = Response("Which modules do you want?", Str("Yes"), "checkbox")
    /\ result.requirements[1].category = "General Requirements"
    /\ result.requirements[1].priority = "Medium"

NineCategories ==
    {CategoryNames[g] : g \in 1..8} \cup {"General Requirements"}

\* C7: categorizeRequirement returns the category of the first keyword group,
\* in the fixed order, with a keyword in the lower-cased question, "General
\* Requirements" when no group matches, and always one of the 9 names.
C7_FirstMatchingGroup ==
    upc = "done" =>
        /\ out.category = firstMatchingCategory(unit.question)
        /\ out.category \in NineCategories
        /\ unit.question = "What is critical for security access control?"
              => out.category = "Security Requirements"

\* a question matching the Functional and the Performance group
C7_Witness ==
    /\ upc = "done"
    /\ {1, 2} \subseteq matchingGroups(unit.question)
    /\ out.category = "Functional Requirements"

\* the final heuristic of determinePriority
lengthHeuristic(answer) == IF largeAnswer(answer) THEN "High" ELSE "Medium"

\* C8: determinePriority is the fallthrough chain urgency-in-question (High),
\* deferral-in-question (Low), urgency-in-answer (High), deferral-in-answer
\* (Low), length heuristic.
C8_PriorityChain ==
    upc = "done" =>
        LET qHigh == urgentText(unit.question)
            qLow == deferredText(unit.question)
            aHigh == urgentText(String(unit.answer))
            aLow == deferredText(String(unit.answer))
        IN  out.priority =
                IF qHigh THEN "High"
                ELSE IF qLow THEN "Low"
                ELSE IF aHigh THEN "High"
                ELSE IF aLow THEN "Low"
                ELSE lengthHeuristic(unit.answer)

\* a question with only a deferral keyword, answered with an urgency keyword
C8_Witness ==
    /\ upc = "done"
    /\ unit.question = "Anything nice to have later?"
    /\ unit.answer = Str("This is essential")
    /\ out.priority = "Low"

keywordCount(question) ==
    Cardinality({k \in {"security", "performance", "integration"} :
                    includes(toLowerCase(question), k)})

typeCriteriaCount(answer, questionType) ==
    IF questionType = "checkbox" /\ answer.t = "arr" THEN Len(answer.a) + 1
    ELSE IF questionType \in {"number", "email"} THEN 2
    ELSE IF questionType = "date" THEN 3
    ELSE 0

keywordEntries(question) ==
    (IF includes(toLowerCase(question), "security")
     THEN <<"Security requirements are met and verified",
            "Access controls are properly implemented">> ELSE <<>>)
    \o (IF includes(toLowerCase(question), "performance")
        THEN <<"Performance benchmarks are met",
               "Load testing validates performance requirements">> ELSE <<>>)
    \o (IF includes(toLowerCase(question), "integration")
        THEN <<"Integration points are tested and functional",
               "Data flow between systems is verified">> ELSE <<>>)

\* C9: the acceptance criteria start with the three baseline entries, then
\* the type-specific entries, then the keyword-triggered entries in the order
\* security, performance, integration; a checkbox question with n options has
\* 3 + n + 1 + 2k entries, and there are never fewer than 3.
C9_AcceptanceCriteria ==
    upc = "done" =>
        LET criteria == out.acceptanceCriteria
            typed == typeCriteriaCount(unit.answer, unit.questionType)
        IN  /\ Len(criteria) >= 3
            /\ criteria[1] = "Requirement is clearly defined and testable"
            /\ criteria[2] = "Implementation meets specified functionality"
            /\ criteria[3] = "User acceptance testing passes successfully"
            /\ Len(criteria) = 3 + typed + 2 * keywordCount(unit.question)
            /\ SubSeq(criteria, 4 + typed, Len(criteria)) = keywordEntries(unit.question)
            /\ (unit.questionType = "checkbox" /\ unit.answer.t = "arr")
                  => /\ Len(criteria)
                           = 3 + Len(unit.answer.a) + 1 + 2 * keywordCount(unit.question)
                     /\ \A k \in 1..Len(unit.answer.a) :
                           criteria[3 + k]
                               = "System successfully supports: " \o unit.answer.a[k]
                     /\ criteria[4 + Len(unit.answer.a)]
                           = "All selected options are fully functional"

\* a checkbox question naming all three keywords, answered with two options
C9_Witness ==
    /\ upc = "done"
    /\ unit.questionType = "checkbox"
    /\ unit.answer = Arr(<<"Search", "Alerts">>)
    /\ keywordCount(unit.question) = 3
    /\ Len(out.acceptanceCriteria) = 12

ThemeKeywords ==
    <<"efficiency", "customer", "automation", "integration", "reporting",
      "security", "scalability", "compliance">>

DefaultObjectives ==
    <<"Deliver a solution that meets specified requirements",
      "Ensure user satisfaction and system usability",
      "Maintain system reliability and performance">>

\* the lower-cased concatenation of the title and all question+answer texts
titleAndResponsesText ==
    toLowerCase(join(<<data.formTitle>>
                         \o [k \in 1..Len(data.responses) |->
                                data.responses[k].question \o " "
                                    \o String(data.responses[k].answer)],
                     " "))

\* C10: businessObjectives is the 3 default objectives if and only if no theme
\* keyword occurs in the title and response text; with no valid response and
\* no theme keyword, requirements is empty and businessObjectives is the
\* defaults.
C10_DefaultObjectives ==
    pc = "done" =>
        LET themed == someIncluded(ThemeKeywords, titleAndResponsesText)
        IN  /\ result.businessObjectives = DefaultObjectives <=> ~themed
            /\ (validIndices(data.responses) = {} /\ ~themed)
                  => /\ result.requirements = <<>>
                     /\ result.businessObjectives = DefaultObjectives

\* only invalid responses and no theme keyword anywhere
C10_Witness ==
    /\ pc = "done"
    /\ Len(data.responses) > 0
    /\ validIndices(data.responses) = {}
    /\ ~someIncluded(ThemeKeywords, titleAndResponsesText)
    /\ result.businessObjectives = DefaultObjectives

(***************************************************************************)
(* Properties of the document-level rules.                                 *)
(***************************************************************************)
\* the lower-cased concatenation of the question+answer texts of the call
responsesOnlyText ==
    toLowerCase(join([k \in 1..Len(data.responses) |->
                         data.responses[k].question \o " "
                             \o String(data.responses[k].answer)],
                     " "))

inResponses(k) == includes(responsesOnlyText, k)

gatedStakeholders ==
    (IF inResponses("admin") \/ inResponses("administrator")
     THEN <<"System Administrator - System maintenance and configuration">> ELSE <<>>)
    \o (IF inResponses("manager") \/ inResponses("management")
        THEN <<"Management Team - Strategic oversight and approval">> ELSE <<>>)
    \o (IF inResponses("customer") \/ inResponses("client")
        THEN <<"Customer Support Team - User assistance and feedback">> ELSE <<>>)
    \o (IF inResponses("finance") \/ inResponses("accounting")
        THEN <<"Finance Team - Budget and financial oversight">> ELSE <<>>)

\* C11: stakeholders is the 6 baseline roles in fixed order, the first being
\* "<clientName> - Primary Client", followed by each of the four gated roles
\* exactly when its own keyword occurs in the response text (client name and
\* title are not scanned); 6 to 10 entries, 6 when no gate keyword occurs.
C11_Stakeholders ==
    pc = "done" =>
        LET st == result.stakeholders
        IN  /\ Len(st) \in 6..10
            /\ SubSeq(st, 1, 6) =
                  <<data.clientName \o " - Primary Client",
                    "Project Manager - Overall project coordination",
                    "Business Analyst - Requirements analysis and documentation",
                    "Development Team - System implementation",
                    "Quality Assurance Team - Testing and validation",
                    "End Users - System users and beneficiaries">>
            /\ SubSeq(st, 7, Len(st)) = gatedStakeholders
            /\ gatedStakeholders = <<>> => Len(st) = 6

\* the manager gate alone fires, under a client name and a title that hold
\* the keywords of three other gates
C11_Witness ==
    /\ pc = "done"
    /\ data.clientName = "Admin Finance Partners"
    /\ data.formTitle = "Customer Onboarding"
    /\ Len(result.stakeholders) = 7
    /\ result.stakeholders[1] = "Admin Finance Partners - Primary Client"
    /\ result.stakeholders[7] = "Management Team - Strategic oversight and approval"

CountText == <<"0", "1", "2", "3", "4", "5", "6">>

distinctCategories(reqs) == {reqs[k].category : k \in 1..Len(reqs)}

highPriority(reqs) == {k \in 1..Len(reqs) : reqs[k].priority = "High"}

\* the counting sentence of the first paragraph of the executive summary
countSentence(total, categories, high) ==
    "we have identified " \o CountText[total + 1] \o " distinct requirements across "
        \o CountText[categories + 1] \o " major categories. Of these, "
        \o CountText[high + 1] \o " are classified as high priority"

\* C12: the executive summary reports the length of requirements, the number
\* of distinct categories among them and the number of High requirements of
\* the same result; all three are 0 when no response is valid.
C12_SummaryCounts ==
    pc = "done" =>
        LET reqs == result.requirements
        IN  /\ includes(result.executiveSummary,
                        countSentence(Len(reqs), Cardinality(distinctCategories(reqs)),
                                      Cardinality(highPriority(reqs))))
            /\ validIndices(data.responses) = {}
                  => includes(result.executiveSummary, countSentence(0, 0, 0))

\* two requirements of one category, neither of them High
C12_Witness ==
    /\ pc = "done"
    /\ Len(result.requirements) = 2
    /\ Cardinality(distinctCategories(result.requirements)) = 1
    /\ Cardinality(highPriority(result.requirements)) = 0
    /\ includes(result.executiveSummary, countSentence(2, 1, 0))

(***************************************************************************)
(* C13, C14: calls on the one instance do not affect each other.           *)
(***************************************************************************)
sameCallAgain == pc = "done" /\ kept # NoCall /\ kept.data = data

\* C13: a call made again with the inputs of an earlier call, whatever calls
\* were made in between, returns a result equal in every field to the one the
\* earlier caller holds, the requirement ids starting at REQ-001 again
C13_Idempotent ==
    sameCallAgain =>
        /\ result = kept.result
        /\ \A k \in 1..Len(result.requirements) :
               result.requirements[k].id = ExpectedIds[k]

C13_Witness ==
    /\ sameCallAgain
    /\ Len(result.requirements) = 1
    /\ result.requirements[1].id = "REQ-001"
    /\ kept.result.requirements[1].id = "REQ-001"

\* the result of a call that is the only one ever made: ids counted from 1
\* over the valid responses, the document sections from the request alone
requirementsAlone(responses) ==
    LET valid == validResponses(responses)
    IN  [k \in 1..Len(valid) |-> RequirementItem(ExpectedIds[k], valid[k])]

analysisAlone(d) ==
    LET objectives == identifyBusinessObjectives(d.responses, d.formTitle)
        reqs == requirementsAlone(d.responses)
    IN  [executiveSummary |->
             generateExecutiveSummary(d.formTitle, d.clientName, reqs, objectives),
         projectOverview |->
             generateProjectOverview(d.formTitle, d.formDescription, Arr(d.responses)),
         businessObjectives |-> objectives,
         stakeholders |-> identifyStakeholders(d.responses, d.clientName),
         requirements |-> reqs,
         assumptions |-> generateAssumptions(d.responses),
         constraints |-> identifyConstraints(d.responses),
         risks |-> assessRisks(d.responses),
         successCriteria |-> defineSuccessCriteria(d.responses, objectives)]

noPriorityKeyword(response) ==
    /\ ~urgentText(response.question) /\ ~deferredText(response.question)
    /\ ~urgentText(String(response.answer)) /\ ~deferredText(String(response.answer))

\* C15: with no urgency or deferral keyword in the question or the stringified
\* answer, the priority is High for a string of more than 100 characters or a
\* sequence of more than 3 elements and Medium otherwise: Medium for exactly
\* 100 characters, exactly 3 elements, numbers, booleans and keyed structures
C15_LengthHeuristic ==
    (upc = "done" /\ noPriorityKeyword(unit)) =>
        LET a == unit.answer
        IN  /\ (a.t = "str" /\ Len(a.s) >= 101) => out.priority = "High"
            /\ (a.t = "str" /\ Len(a.s) <= 100) => out.priority = "Medium"
            /\ (a.t = "arr" /\ Len(a.a) >= 4) => out.priority = "High"
            /\ (a.t = "arr" /\ Len(a.a) <= 3) => out.priority = "Medium"
            /\ a.t \in {"num", "bool", "obj", "null", "undefined"} =>
                   out.priority = "Medium"

C15_Witness ==
    /\ upc = "done"
    /\ noPriorityKeyword(unit)
    /\ unit.answer.t = "str"
    /\ Len(unit.answer.s) = 100
    /\ out.priority = "Medium"

(***************************************************************************)
(* C16, C17: the requirement description.                                  *)
(***************************************************************************)
startsWith(s, p) == Len(s) >= Len(p) /\ SubSeq(s, 1, Len(p)) = p

endsWith(s, e) == Len(s) >= Len(e) /\ SubSeq(s, Len(s) - Len(e) + 1, Len(s)) = e

\* the text before and the text after the question in the description
descriptionFrame(questionType, answer) ==
    IF questionType = "checkbox" /\ answer.t = "arr"
    THEN <<"The system shall support ", " with the following capabilities: ">>
    ELSE IF questionType \in {"radio", "select"}
    THEN <<"For ", ", the system shall implement: ">>
    ELSE IF questionType = "number"
    THEN <<"The system shall meet the requirement for ", " with a value of ">>
    ELSE IF questionType = "date"
    THEN <<"The system shall handle ", " with the specified date: ">>
    ELSE <<"Regarding ", ": ">>

\* C16: the description opens and closes with the frame of its question type
\* (capabilities for checkbox with a sequence, implement for radio and select,
\* value for number, date for date, Regarding for everything else, a checkbox
\* with another answer included), closed by formatAnswer(answer, questionType)
C16_FrameByType ==
    upc = "done" =>
        LET frame == descriptionFrame(unit.questionType, unit.answer)
        IN  /\ startsWith(out.description, frame[1])
            /\ endsWith(out.description, frame[2] \o out.formatted)
            /\ Len(out.description) >= Len(frame[1]) + Len(frame[2]) + Len(out.formatted)
            /\ (unit.questionType \in {"text", "textarea", "email"}
                \/ (unit.questionType = "checkbox" /\ unit.answer.t # "arr"))
                   => startsWith(out.description, "Regarding ")

C16_Witness ==
    /\ upc = "done"
    /\ unit.questionType = "checkbox"
    /\ unit.answer = Str("Yes")
    /\ unit.question = "Which modules do you want?"
    /\ out.description = "Regarding which modules do you want: Yes"

\* the question as it stands in the description, between the frame's parts
substitutedQuestion ==
    LET frame == descriptionFrame(unit.questionType, unit.answer)
    IN  SubSeq(out.description, Len(frame[1]) + 1,
               Len(out.description) - Len(frame[2]) - Len(out.formatted))

RECURSIVE trailingMarks(_)
trailingMarks(s) ==
    IF Len(s) > 0 /\ CharAt(s, Len(s)) \in {"?", ":"}
    THEN 1 + trailingMarks(SubSeq(s, 1, Len(s) - 1))
    ELSE 0

\* C17 (as claimed): the question substituted is the lower-cased question less
\* its trailing "?" and ":" only, a mark followed by other characters is kept
C17_TrailingOnly ==
    upc = "done" =>
        LET lower == toLowerCase(unit.question)
        IN  substitutedQuestion = SubSeq(lower, 1, Len(lower) - trailingMarks(lower))

markFree(s) == {i \in 1..Len(s) : CharAt(s, i) \notin {"?", ":"}}

\* C17 (amended): the question substituted is the lower-cased question with
\* every "?" and ":" removed, wherever it stands: the remaining characters in
\* their order
C17_EveryMarkRemoved ==
    upc = "done" =>
        LET lower == toLowerCase(unit.question)
            keep == markFree(lower)
            place(i) == Cardinality({j \in keep : j <= i})
        IN  /\ Len(substitutedQuestion) = Cardinality(keep)
            /\ \A i \in keep : CharAt(substitutedQuestion, place(i)) = CharAt(lower, i)

C17_Witness ==
    /\ upc = "done"
    /\ unit.question = "Go-live: which quarter?"
    /\ unit.questionType = "text"
    /\ unit.answer = Str("Yes")
    /\ out.description = "Regarding go-live which quarter: Yes"

(***************************************************************************)
(* C18: assessBusinessValue.                                               *)
(***************************************************************************)
\* the rules in their order: the terms looked for in the question, the term
\* looked for in the stringified answer, the line returned
ValueRules ==
    <<[inQuestion |-> <<"revenue", "profit", "cost">>, inAnswer |-> "money",
       line |-> "High - Direct financial impact on business operations"],
      [inQuestion |-> <<"customer", "user", "client">>, inAnswer |-> "satisfaction",
       line |-> "High - Improves customer experience and satisfaction"],
      [inQuestion |-> <<"efficiency", "productivity", "automation">>, inAnswer |-> "faster",
       line |-> "Medium - Enhances operational efficiency"],
      [inQuestion |-> <<"compliance", "regulation", "legal">>, inAnswer |-> "required",
       line |-> "High - Ensures regulatory compliance and risk mitigation"],
      [inQuestion |-> <<"reporting", "analytics", "insight">>, inAnswer |-> "decision",
       line |-> "Medium - Supports data-driven decision making"]>>

GenericValueLine == "Medium - Supports business objectives and user needs"

valueRuleMatches(k, response) ==
    \/ someIncluded(ValueRules[k].inQuestion, toLowerCase(response.question))
    \/ includes(toLowerCase(String(response.answer)), ValueRules[k].inAnswer)

matchingValueRules(response) ==
    {k \in 1..Len(ValueRules) : valueRuleMatches(k, response)}

\* C18: the business value is the line of the first rule, in the order
\* financial, customer/user, efficiency/automation, compliance/legal,
\* reporting/analytics, of which a question term occurs in the question or the
\* answer term occurs in the stringified answer, and the generic Medium line
\* when there is none; financial wins over customer, efficiency over compliance
C18_FirstValueRule ==
    upc = "done" =>
        LET m == matchingValueRules(unit)
        IN  /\ m = {} => out.businessValue = GenericValueLine
            /\ \A k \in m :
                   (\A j \in m : k <= j) => out.businessValue = ValueRules[k].line
            /\ {1, 2} \subseteq m => out.businessValue = ValueRules[1].line
            /\ ({3, 4} \subseteq m /\ 1 \notin m /\ 2 \notin m)
                   => out.businessValue = "Medium - Enhances operational efficiency"

C18_Witness ==
    /\ upc = "done"
    /\ unit.question = "Automation of compliance checks"
    /\ unit.answer = Str("Required eventually")
    /\ matchingValueRules(unit) = {3, 4}
    /\ out.businessValue = "Medium - Enhances operational efficiency"

(***************************************************************************)
(* C19: generateTechnicalNotes.                                            *)
(***************************************************************************)
typeNote(questionType) ==
    IF questionType \in {"checkbox", "radio"}
    THEN <<"Consider using enumeration or configuration-driven approach">>
    ELSE IF questionType = "number"
    THEN <<"Implement proper input validation and range checking">>
    ELSE IF questionType = "date"
    THEN <<"Consider timezone handling and date format localization">>
    ELSE IF questionType = "email"
    THEN <<"Implement RFC-compliant email validation">>
    ELSE <<>>

NoteKeywords == <<"integration", "security", "performance">>

KeywordNotes ==
    <<"Design with API versioning and error handling in mind",
      "Follow security best practices and conduct security review",
      "Consider caching strategies and performance monitoring">>

RECURSIVE keywordNotesFrom(_, _)
keywordNotesFrom(k, question) ==
    IF k > Len(NoteKeywords) THEN <<>>
    ELSE (IF includes(toLowerCase(question), NoteKeywords[k])
          THEN <<KeywordNotes[k]>> ELSE <<>>)
             \o keywordNotesFrom(k + 1, question)

\* C19: the technical notes are the "; "-join of at most one note for the type
\* (none for text, textarea and select) followed by the notes for integration,
\* security and performance, in that order, one for each of them present in
\* the question; they are empty exactly when there is no note at all
C19_TechnicalNotes ==
    upc = "done" =>
        LET notes == typeNote(unit.questionType) \o keywordNotesFrom(1, unit.question)
        IN  /\ out.technicalNotes = join(notes, "; ")
            /\ Len(typeNote(unit.questionType)) <= 1
            /\ unit.questionType \in {"text", "textarea", "select"}
                   => typeNote(unit.questionType) = <<>>
            /\ out.technicalNotes = "" <=>
                   /\ unit.questionType \in {"text", "textarea", "select"}
                   /\ \A k \in 1..Len(NoteKeywords) :
                          ~includes(toLowerCase(unit.question), NoteKeywords[k])

C19_Witness ==
    /\ upc = "done"
    /\ unit.questionType = "radio"
    /\ unit.question = "How should performance, security and integration be balanced?"
    /\ out.technicalNotes =
           "Consider using enumeration or configuration-driven approach; "
           \o "Design with API versioning and error handling in mind; "
           \o "Follow security best practices and conduct security review; "
           \o "Consider caching strategies and performance monitoring"

(***************************************************************************)
(* C20: the themed business objectives.                                    *)
(***************************************************************************)
ThemeSentences ==
    <<"Improve operational efficiency and streamline processes",
      "Enhance customer experience and satisfaction",
      "Automate manual processes to reduce errors and save time",
      "Integrate systems for better data flow and coordination",
      "Provide comprehensive reporting and analytics capabilities",
      "Strengthen security measures and ensure data protection",
      "Build scalable solutions to support business growth",
      "Ensure regulatory compliance and risk management">>

entries(list) == {list[k] : k \in 1..Len(list)}

occurrences(text, keyword) ==
    Cardinality({i \in 1..(Len(text) - Len(keyword) + 1) :
                    SubSeq(text, i, i + Len(keyword) - 1) = keyword})

\* C20: when a theme keyword occurs in the title and response text, the
\* business objectives hold the sentence of a theme exactly when its keyword
\* occurs in that text, hold no entry twice and hold no default objective; a
\* keyword in the title only, or occurring several times, gives one entry
C20_ThemedObjectives ==
    (pc = "done" /\ someIncluded(ThemeKeywords, titleAndResponsesText)) =>
        LET objectives == result.businessObjectives
        IN  /\ \A t \in 1..Len(ThemeKeywords) :
                   ThemeSentences[t] \in entries(objectives)
                       <=> includes(titleAndResponsesText, ThemeKeywords[t])
            /\ \A i, j \in 1..Len(objectives) : objectives[i] = objectives[j] => i = j
            /\ entries(objectives) \cap entries(DefaultObjectives) = {}
            /\ entries(objectives) \subseteq entries(ThemeSentences)

C20_Witness ==
    /\ pc = "done"
    /\ data.formTitle = "Customer Onboarding"
    /\ ~includes(responsesOnlyText, "customer")
    /\ occurrences(titleAndResponsesText, "security") = 2
    /\ result.businessObjectives =
           <<"Enhance customer experience and satisfaction",
             "Strengthen security measures and ensure data protection">>

(***************************************************************************)
(* C21: assumptions, constraints and risks.                                *)
(***************************************************************************)
AssumptionBaseline ==
    <<"All required resources and personnel will be available as planned",
      "Stakeholders will provide timely feedback and approvals",
      "Technical infrastructure meets minimum system requirements",
      "User training will be provided before system deployment",
      "Data migration (if required) will be completed successfully">>

AssumptionGates ==
    <<[keywords |-> <<"integration">>,
       adds |-> <<"Third-party systems will be available for integration testing",
                  "API documentation and access will be provided by external vendors">>],
      [keywords |-> <<"data", "database">>,
       adds |-> <<"Data quality meets acceptable standards for migration",
                  "Backup and recovery procedures are in place">>],
      [keywords |-> <<"mobile", "app">>,
       adds |-> <<"Mobile device compatibility requirements are clearly defined">>]>>

ConstraintBaseline ==
    <<"Project must be completed within approved budget",
      "Solution must comply with existing security policies",
      "System must integrate with current technology stack",
      "Implementation must minimize disruption to ongoing operations">>

ConstraintGates ==
    <<[keywords |-> <<"budget", "cost">>,
       adds |-> <<"Budget limitations may impact scope and timeline">>],
      [keywords |-> <<"timeline", "deadline">>,
       adds |-> <<"Fixed timeline requirements must be met">>],
      [keywords |-> <<"legacy", "existing">>,
       adds |-> <<"Must maintain compatibility with legacy systems">>],
      [keywords |-> <<"regulation", "compliance">>,
       adds |-> <<"Must adhere to regulatory and compliance requirements">>]>>

RiskBaseline ==
    <<"Technical complexity may lead to implementation delays",
      "Scope creep could impact timeline and budget",
      "Integration challenges with existing systems",
      "User adoption may be slower than anticipated",
      "Data quality issues could affect system performance">>

RiskGates ==
    <<[keywords |-> <<"integration", "api">>,
       adds |-> <<"Third-party system dependencies may cause integration delays">>],
      [keywords |-> <<"performance", "load">>,
       adds |-> <<"Performance requirements may not be met under high load">>],
      [keywords |-> <<"security">>,
       adds |-> <<"Security vulnerabilities could compromise system integrity">>],
      [keywords |-> <<"data", "migration">>,
       adds |-> <<"Data migration complexity may cause project delays">>]>>

gateOpen(gate) == someIncluded(gate.keywords, responsesOnlyText)

openGates(gates) == {g \in 1..Len(gates) : gateOpen(gates[g])}

\* the entries of the open gates among the first n, in the order of the gates
RECURSIVE gatedEntries(_, _)
gatedEntries(gates, n) ==
    IF n = 0 THEN <<>>
    ELSE gatedEntries(gates, n - 1)
             \o (IF gateOpen(gates[n]) THEN gates[n].adds ELSE <<>>)

baselineThenGates(list, baseline, gates) ==
    /\ Len(list) >= Len(baseline)
    /\ SubSeq(list, 1, Len(baseline)) = baseline
    /\ SubSeq(list, Len(baseline) + 1, Len(list)) = gatedEntries(gates, Len(gates))
    /\ openGates(gates) = {} => list = baseline

\* C21: assumptions, constraints and risks are their baseline of 5, 4 and 5
\* entries, whatever the input, followed by the 1 or 2 entries of each topic
\* gate whose keyword occurs in the lower-cased response text, each gate on its
\* own; the lengths lie in 5..10, 4..8 and 5..9
C21_BaselineThenGates ==
    pc = "done" =>
        /\ baselineThenGates(result.assumptions, AssumptionBaseline, AssumptionGates)
        /\ baselineThenGates(result.constraints, ConstraintBaseline, ConstraintGates)
        /\ baselineThenGates(result.risks, RiskBaseline, RiskGates)
        /\ Len(result.assumptions) \in 5..10
        /\ Len(result.constraints) \in 4..8
        /\ Len(result.risks) \in 5..9
        /\ \A g \in 1..3 : Len(AssumptionGates[g].adds) \in 1..2

C21_Witness ==
    /\ pc = "done"
    /\ openGates(AssumptionGates) = {1, 2, 3}
    /\ openGates(ConstraintGates) = {1, 2, 3, 4}
    /\ Len(result.assumptions) = 10
    /\ Len(result.constraints) = 8

(***************************************************************************)
(* C22: the success criteria.                                              *)
(***************************************************************************)
SuccessBaseline ==
    <<"All functional requirements are implemented and tested",
      "System performance meets specified benchmarks",
      "User acceptance testing is completed successfully",
      "System is deployed without critical issues",
      "User training is completed and feedback is positive">>

\* the criterion of each of the themes efficiency, customer, automation
ThemeCriteria ==
    <<"Process efficiency improvements are measurable and documented",
      "Customer satisfaction scores meet or exceed targets",
      "Manual process reduction is achieved as specified">>

themesFound == {t \in 1..3 : ThemeSentences[t] \in entries(result.businessObjectives)}

\* C22 (as claimed): the success criteria are the 5 baseline entries followed
\* by the criterion of each of the themes efficiency, customer and automation
\* whose objective is among the business objectives, exactly those: 5 to 8
\* entries, 8 when all three themes were found
C22_ThemeCriteria ==
    pc = "done" =>
        LET criteria == result.successCriteria
        IN  /\ Len(criteria) \in 5..8
            /\ SubSeq(criteria, 1, 5) = SuccessBaseline
            /\ \A t \in 1..3 : ThemeCriteria[t] \in entries(criteria) <=> t \in themesFound
            /\ Len(criteria) = 5 + Cardinality(themesFound)

(***************************************************************************)
(* C23: the second and third paragraph of the executive summary.           *)
(***************************************************************************)
\* the distinct categories of the requirements in order of first occurrence
RECURSIVE categoriesInOrder(_, _)
categoriesInOrder(reqs, k) ==
    IF k > Len(reqs) THEN <<>>
    ELSE (IF \E j \in 1..(k - 1) : reqs[j].category = reqs[k].category
          THEN <<>> ELSE <<reqs[k].category>>)
             \o categoriesInOrder(reqs, k + 1)

firstCategories(reqs) ==
    LET all == categoriesInOrder(reqs, 1)
    IN  SubSeq(all, 1, IF Len(all) < 3 THEN Len(all) ELSE 3)

restatedObjectives(objectives) ==
    toLowerCase(IF Len(objectives) = 1 THEN objectives[1]
                ELSE objectives[1] \o " and " \o objectives[2])

\* C23: the second paragraph of the executive summary restates the first two
\* business objectives (the only one when there is one) in lower case joined
\* with " and "; the third names the first min(3, n) of the n distinct
\* requirement categories in order of first occurrence, joined with ", ", and
\* names none when there are no requirements
C23_SummaryParagraphs ==
    pc = "done" =>
        /\ Len(result.businessObjectives) >= 1
        /\ includes(result.executiveSummary,
                    "\n\nThe project aims to "
                        \o restatedObjectives(result.businessObjectives)
                        \o ". This document serves as the foundation")
        /\ includes(result.executiveSummary,
                    "\n\nKey focus areas include "
                        \o join(firstCategories(result.requirements), ", ")
                        \o ", which represent the core functional domains")
        /\ result.requirements = <<>> =>
               includes(result.executiveSummary, "Key focus areas include , which")

C23_Witness ==
    /\ pc = "done"
    /\ Len(result.requirements) = 5
    /\ Len(result.businessObjectives) > 2
    /\ includes(result.executiveSummary,
                "Key focus areas include Security Requirements, Integration Requirements, "
                    \o "Compliance Requirements, which")
    /\ ~includes(result.executiveSummary, "General Requirements")

(***************************************************************************)
(* C24: the project overview.                                              *)
(***************************************************************************)
descriptionSupplied == data.formDescription.t = "str" /\ data.formDescription.s # ""

DescriptionVariantTail ==
    " This project will deliver a comprehensive solution that aligns with business objectives and provides measurable value to stakeholders."

countPhrase(n) == "gathering involving " \o CountText[n + 1] \o " detailed response(s)"

\* C24: the project overview is the description variant, holding the
\* description verbatim, when a description was supplied, and otherwise the
\* count variant with the number of response items of the request, valid or
\* not (0 without a responses array); never both, and no count is reported
\* next to a description
C24_OverviewVariant ==
    pc = "done" =>
        LET overview == result.projectOverview
        IN  /\ descriptionSupplied =>
                   /\ endsWith(overview, ". " \o data.formDescription.s
                                             \o DescriptionVariantTail)
                   /\ ~includes(overview, "detailed response(s)")
            /\ ~descriptionSupplied =>
                   /\ includes(overview, countPhrase(Len(data.responses)))
                   /\ ~includes(overview, DescriptionVariantTail)
            /\ includes(generateProjectOverview(data.formTitle, Undefined, Undefined),
                        countPhrase(0))

C24_Witness ==
    /\ pc = "done"
    /\ data.formDescription = Str("")
    /\ Len(data.responses) = 1
    /\ includes(result.projectOverview, "involving 1 detailed response(s)")

(***************************************************************************)
(* C25: the document-level rules read every raw response.                  *)
(***************************************************************************)
StakeholderGates ==
    <<[keywords |-> <<"admin", "administrator">>,
       adds |-> <<"System Administrator - System maintenance and configuration">>],
      [keywords |-> <<"manager", "management">>,
       adds |-> <<"Management Team - Strategic oversight and approval">>],
      [keywords |-> <<"customer", "client">>,
       adds |-> <<"Customer Support Team - User assistance and feedback">>],
      [keywords |-> <<"finance", "accounting">>,
       adds |-> <<"Finance Team - Budget and financial oversight">>]>>

\* every gate of which question holds a keyword has its entries in list
gatesOfQuestionIn(question, gates, list) ==
    \A g \in 1..Len(gates) :
        someIncluded(gates[g].keywords, toLowerCase(question))
            => entries(gates[g].adds) \subseteq entries(list)

invalidIndices == {k \in 1..Len(data.responses) : k \notin validIndices(data.responses)}

\* C25: a response whose answer is not valid, and which gives no requirement,
\* still triggers through the keywords of its question the business
\* objective, stakeholder, assumption, constraint and risk entries, and still
\* counts in the response count of the project overview
C25_RawResponsesRead ==
    pc = "done" =>
        /\ Len(result.requirements) = Len(data.responses) - Cardinality(invalidIndices)
        /\ \A k \in invalidIndices :
               LET question == data.responses[k].question
               IN  /\ \A t \in 1..Len(ThemeKeywords) :
                          includes(toLowerCase(question), ThemeKeywords[t])
                              => ThemeSentences[t] \in entries(result.businessObjectives)
                   /\ gatesOfQuestionIn(question, StakeholderGates, result.stakeholders)
                   /\ gatesOfQuestionIn(question, AssumptionGates, result.assumptions)
                   /\ gatesOfQuestionIn(question, ConstraintGates, result.constraints)
                   /\ gatesOfQuestionIn(question, RiskGates, result.risks)
        /\ ~descriptionSupplied =>
               includes(result.projectOverview,
                        "involving " \o CountText[Len(data.responses) + 1] \o " detailed")

\* one response with an empty answer and the question about compliance and
\* customer data
C25_Witness ==
    /\ pc = "done"
    /\ data.formTitle = "Vendor Portal"
    /\ Len(data.responses) = 1
    /\ data.responses[1].question = "Compliance and audit policy for customer data"
    /\ invalidIndices = {1}
    /\ result.requirements = <<>>
    /\ result.businessObjectives =
           <<"Enhance customer experience and satisfaction",
             "Ensure regulatory compliance and risk management">>
    /\ Len(result.stakeholders) = 7
    /\ Len(result.assumptions) = 7
    /\ Len(result.constraints) = 5
    /\ Len(result.risks) = 6
    /\ includes(result.projectOverview, "involving 1 detailed response(s)")

(***************************************************************************)
(* C26: keywords are matched as substrings.                                *)
(***************************************************************************)
isLetter(c) == \E i \in 1..26 : CharAt("abcdefghijklmnopqrstuvwxyz", i) = c

\* k occurs in text with no letter before or after it
standsAlone(text, k) ==
    \E i \in 1..(Len(text) - Len(k) + 1) :
        /\ SubSeq(text, i, i + Len(k) - 1) = k
        /\ (i = 1 \/ ~isLetter(CharAt(text, i - 1)))
        /\ (i + Len(k) > Len(text) \/ ~isLetter(CharAt(text, i + Len(k))))

insideWordOnly(text, k) == includes(text, k) /\ ~standsAlone(text, k)

\* C26: a question in which a category keyword occurs only inside a longer
\* word is categorised as the keyword alone is, never as General Requirements,
\* and one in which an urgency keyword occurs only inside a longer word is
\* High whatever the answer: "ui" in "requirements" and "build", "load" in
\* "download", "api" in "rapid", "core" in "score"
C26_SubstringMatch ==
    upc = "done" =>
        LET q == toLowerCase(unit.question)
        IN  /\ \A g \in 1..8 : \A j \in 1..Len(CategoryKeywords[g]) :
                   insideWordOnly(q, CategoryKeywords[g][j]) =>
                       /\ out.category # "General Requirements"
                       /\ matchingGroups(unit.question) = {g} =>
                              /\ out.category = CategoryNames[g]
                              /\ out.category =
                                     categorizeRequirement(CategoryKeywords[g][j],
                                                           unit.questionType)
            /\ \A j \in 1..Len(UrgencyKeywords) :
                   insideWordOnly(q, UrgencyKeywords[j]) =>
                       /\ out.priority = "High"
                       /\ out.priority = determinePriority(UrgencyKeywords[j], unit.answer)
            /\ unit.question \in {"Other requirements", "Who will build it"}
                   => out.category = "User Interface Requirements"
            /\ unit.question = "Download limits" => out.category = "Performance Requirements"
            /\ unit.question = "Rapid rollout" => out.category = "Integration Requirements"

C26_Witness ==
    /\ upc = "done"
    /\ unit.question = "Target score"
    /\ insideWordOnly("target score", "core")
    /\ unit.answer = Str("Maybe")
    /\ out.priority = "High"

(***************************************************************************)
(* C27: the three copies of formatAnswer.                                  *)
(***************************************************************************)
\* C27: for a question type other than date the formatAnswer of AIService,
\* of BRDGenerator and of PDFGenerator return the same string for the same
\* answer: the sentinel for null and undefined, the ", "-join for a sequence,
\* the serialization for a keyed structure, the plain string form otherwise
C27_CopiesAgree ==
    (upc = "printed" /\ unit.questionType # "date") =>
        /\ out.brdFormatted = out.formatted
        /\ out.pdfFormatted = out.formatted
        /\ unit.answer.t \in {"null", "undefined"} => out.pdfFormatted = "No answer provided"
        /\ unit.answer.t = "arr" => out.pdfFormatted = join(unit.answer.a, ", ")
        /\ unit.answer.t = "obj" => out.pdfFormatted = jsonStringify(unit.answer)
        /\ unit.answer.t \in {"str", "num", "bool"} => out.pdfFormatted = String(unit.answer)

C27_Witness ==
    /\ upc = "printed"
    /\ unit.questionType = "checkbox"
    /\ unit.answer = Arr(<<"Search", "Alerts">>)
    /\ out.formatted = "Search, Alerts"
    /\ out.brdFormatted = "Search, Alerts"
    /\ out.pdfFormatted = "Search, Alerts"

(***************************************************************************)
(* Properties of the form builder's lists.                                 *)
(***************************************************************************)
\* order_index is the 0-based position: dense and without duplicates
indexedByPosition(list) == \A k \in 1..Len(list) : list[k].order_index = k - 1

conditionsInForm == conditionCount(Len(questions))

\* C28: starting from empty lists, after any sequence of addQuestion,
\* removeQuestion, moveQuestion and updateQuestion every question's order_index
\* is its 0-based position in the questions list, and moving the first question
\* up or the last question down gives the list unchanged; the same holds for
\* the sections under add, remove and move.
C28_OrderIndexIsPosition ==
    /\ indexedByPosition(questions)
    /\ indexedByPosition(sections)
    /\ Len(questions) > 0 =>
           /\ moveQuestion(questions, 0, "up") = questions
           /\ moveQuestion(questions, Len(questions) - 1, "down") = questions
    /\ Len(sections) > 0 =>
           /\ onMoveSection(sections, 0, "up") = sections
           /\ onMoveSection(sections, Len(sections) - 1, "down") = sections

\* questions were added, moved and given a condition, and a section was removed
\* from in front of another
C28_Witness ==
    /\ Len(questions) = 2
    /\ questions[1].key = 2
    /\ conditionsInForm = 1
    /\ Len(sections) = 1
    /\ sections[1].key = 2

(***************************************************************************)
(* Properties of section membership.                                       *)
(***************************************************************************)
sectionKeys == {sections[k].key : k \in 1..Len(sections)}

\* the sections a question is drawn under
shownUnder(q) == {sections[i + 1].key : i \in {j \in 0..(Len(sections) - 1) : sectionShows(j, q)}}

\* the only section a question may belong to: the one it was added to, while
\* that section exists
ownSection(q) == IF q.home \in sectionKeys THEN {q.home} ELSE {}

questionsInserted == saved.status \in {"saved", "conditionsError"}

savedRowOf(q) == CHOOSE row \in {saved.questions[k] : k \in 1..Len(saved.questions)} : row.key = q.key

\* C29: a question added to a not-yet-saved section stays a member of that
\* section after any sequence of section add, remove and move operations: it is
\* drawn under the section it was added to and under no other, saveForm
\* attaches it to that section, and once that section is removed it is attached
\* to no section.
C29_StaysInItsSection ==
    \A k \in 1..Len(questions) :
        LET q == questions[k]
        IN q.home # 0 =>
               /\ shownUnder(q) = ownSection(q)
               /\ questionsInserted =>
                      savedRowOf(q).section = (IF q.home \in sectionKeys THEN q.home ELSE 0)

(***************************************************************************)
(* Properties of the visibility conditions.                                *)
(***************************************************************************)
\* the positions a stored condition_question_id denotes in the list as it is now
denotedPositions(id) == {i \in 0..(Len(questions) - 1) : NatToString(i) = id}

\* C30: after any sequence of moveQuestion and removeQuestion, the
\* condition_question_id stored in every condition for which a question was
\* chosen still denotes the chosen question, and that question is positioned
\* before the question carrying the condition.
C30_ConditionKeepsItsQuestion ==
    \A k \in 1..Len(questions) :
        \A c \in 1..Len(questions[k].conditions) :
            LET condition == questions[k].conditions[c]
            IN condition.chosen # 0 =>
                   \E i \in denotedPositions(condition.condition_question_id) :
                       /\ questions[i + 1].key = condition.chosen
                       /\ i < k - 1

====
